---- MODULE Spec2Model ----
(***************************************************************************)
(* Message routing and nutrition resolution of HiPat: the macro lookup     *)
(* cascade (core/nutrition/unifiedPipeline.ts), the meal commit (logMeal),  *)
(* the route cache with the semantic router, the message handler           *)
(* (handleUserMessage) and the nutrition pipeline (processNutrition).      *)
(*                                                                         *)
(* Numbers.  Macro values and confidences are JavaScript numbers; the      *)
(* model keeps them as integers in tenths (kcal 1000 is 100.0 kcal,        *)
(* confidence 8 is 0.8).  Similarities are doubles, computed bit for bit;   *)
(* thresholds are kept as percentages and converted when compared.         *)
(* Absent values.  "" models a missing / null / empty string, which the    *)
(* code only ever tests for truthiness.                                    *)
(***************************************************************************)
EXTENDS Integers, Sequences, FiniteSets, TLC

VARIABLES
    \* ---- lookupMacrosInCascade (one call) ----
    items,          \* the call's input list
    cache,          \* table global_nutrition_cache, oldest row first
    cpc,            \* position of the call: "cache", "loop", "last", "done" ("off": no call)
    idx,            \* index of the item of the outer for loop
    ordk,           \* index into ORDER of the inner for loop
    macroResult,    \* local let macroResult
    results,        \* local const results
    skillsFired,    \* local skillsFired (in push order)
    totals,         \* the returned totals
    calls,          \* history: provider invocations made for the item at idx
    opc,            \* position of a second call running beside it: "select", "missed", "hit", "found" ("off": none)
    \* ---- logMeal (one call) ----
    lpc,            \* position of the call: "rpc", "head", "items", "totals", "delItems", "delHead", "done"
    nItems,         \* number of items of the meal
    logId,          \* local let logId (0 is null)
    errMsg,         \* the error caught by the outer catch ("" when none)
    logs,           \* table nutrition_logs: set of header ids
    logItems,       \* table nutrition_log_items: set of <<header id, n>>
    atomicWrote,    \* history: log_meal_atomic persisted the meal
    ops,            \* history: persistence calls issued, in order
    lret,           \* what the call returned (or the exception that escaped)
    \* ---- route cache and semantic router ----
    cached,         \* module variable cached (null, or a list of routes)
    rpc,            \* per caller: position in handleUserMessage
    rret,           \* per caller: value returned by loadRoutesOnce
    fetches,        \* history: number of intent_routes fetches issued
    writes,         \* history: number of assignments to cached
    decision,       \* per caller: the route decision
    \* ---- handleUserMessage (one call) ----
    hpc,            \* position of the call: "load", "loading", "prefs", "route", "branch", "nutrition", "done" ("off": no call)
    hmsg,           \* the message, as its whitespace-separated words
    embedCalls,     \* history: calls to the embedding provider issued by the call
    routeDecision,  \* local let routeDecision
    hscan,          \* history: what decideRoute embedded and scored
    hcall,          \* the branch taken and the showLogButton passed to processNutrition
    \* ---- processNutrition (one call) ----
    npc,            \* position of the call: "normalize", "lookup", "cascade", "view", "done" ("off": no call)
    nmsg,           \* options.message, as its whitespace-separated words
    nshow,          \* options.showLogButton
    nreply,         \* history: the normalizer's reply
    parsedItems,    \* local let parsedItems
    macroResults,   \* local const macroResults
    nres,           \* the returned NutritionPipelineResult
    \* ---- callLLM (one call) ----
    llmPc,          \* position of the call: "start", "fallback", "done" ("off": no call)
    modelSelection, \* params.modelSelection
    messageHistory, \* number of messages of params.messageHistory
    llmCalls,       \* history: the edge-function invocations of the call
    fallbackCause,  \* the key under which raw_data records why the fallback ran
    llmResult,      \* what the call ended with
    \* ---- rankTopPreferences (one call) ----
    ppc,            \* position of the call: "query", "embedQuery", "embedPrefs", "done" ("off": no call)
    pstore,         \* the outcome of the user_preferences query
    pk,             \* the parameter k
    qReply,         \* history: the reply to the embedding of the query
    pReply,         \* history: the reply to the embedding of the preferences
    qVec,           \* local let qVec
    ranked          \* what the call ended with

cascadeVars == <<items, cache, cpc, idx, ordk, macroResult, results, skillsFired, totals, calls, opc>>
mealVars == <<lpc, nItems, logId, errMsg, logs, logItems, atomicWrote, ops, lret>>
routeVars == <<cached, rpc, rret, fetches, writes, decision>>
handleVars == <<hpc, hmsg, embedCalls, routeDecision, hscan, hcall>>
nutritionVars == <<npc, nmsg, nshow, nreply, parsedItems, macroResults, nres>>
llmVars == <<llmPc, modelSelection, messageHistory, llmCalls, fallbackCause, llmResult>>
prefsVars == <<ppc, pstore, pk, qReply, pReply, qVec, ranked>>
vars == <<cascadeVars, mealVars, routeVars, handleVars, nutritionVars, llmVars, prefsVars>>

(***************************************************************************)
(* Bounds of the model.                                                    *)
(***************************************************************************)
MaxItems == 2
MaxMealItems == 2
MaxCallers == 2

(***************************************************************************)
(* Macro lookup cascade                                                    *)
(***************************************************************************)
GEMINI_ENABLED == FALSE

NoBrand == ""

\* Item names as typed, and normalized.name.toLowerCase().trim().
Names == {"Egg ", "bar"}
NormName(n) == IF n = "Egg " THEN "egg" ELSE n

ItemSet == { [name |-> "Egg ", brand |-> "acme"], [name |-> "bar", brand |-> "acme"], [name |-> "bar", brand |-> NoBrand] }

Macros(k, p, c, f, fi) == [kcal |-> k, protein_g |-> p, carbs_g |-> c, fat_g |-> f, fiber_g |-> fi]
ZeroMacros == Macros(0, 0, 0, 0, 0)
PosMacros == Macros(1405, 123, 11, 95, 4)
ProtOnlyMacros == Macros(0, 55, 0, 0, 0)
NegMacros == Macros(-10, 0, 0, 0, 0)

\* A provider's return value.  nul: null/undefined; hasMacros: the macros field
\* is present; confidence 0 and source "" stand for a missing field.
NullResult == [nul |-> TRUE, hasMacros |-> FALSE, macros |-> ZeroMacros, confidence |-> 0, source |-> ""]
Result(m, conf, src) == [nul |-> FALSE, hasMacros |-> TRUE, macros |-> m, confidence |-> conf, source |-> src]

\* normalized = { name, brand, is_branded: !!item.brand, ... }
Normalized(item) == [name |-> item.name, brand |-> item.brand, is_branded |-> item.brand # NoBrand]

\* Text of an LLM reply, by what safeJsonParse and its callers can tell apart:
\* blank (whitespace only), garbage (prose that no repair turns into JSON),
\* notfound ({"error":"not_found"}), macros (an object with numeric fields m).
LlmText(shape, m) == [shape |-> shape, m |-> m]
BlankText == LlmText("blank", ZeroMacros)
LlmTexts ==
    {BlankText, LlmText("garbage", ZeroMacros), LlmText("notfound", ZeroMacros)}
        \cup { LlmText("macros", m) : m \in {ZeroMacros, PosMacros, NegMacros} }

\* safeJsonParse: null for blank input; otherwise the first of JSON.parse(t) and
\* the repairs that parses.  The last repair is the literal '{"items":[]}', which
\* always parses, so unparseable text yields an object with no numeric field.
ParsedNull == [nul |-> TRUE, notFound |-> FALSE, hasNums |-> FALSE, m |-> ZeroMacros, hasItems |-> FALSE, items |-> <<>>]
ParsedItemsOnly == [nul |-> FALSE, notFound |-> FALSE, hasNums |-> FALSE, m |-> ZeroMacros, hasItems |-> TRUE, items |-> <<>>]
safeJsonParse(text) ==
    CASE text.shape = "blank" -> ParsedNull
      [] text.shape = "garbage" -> ParsedItemsOnly
      [] text.shape = "notfound" ->
           [nul |-> FALSE, notFound |-> TRUE, hasNums |-> FALSE, m |-> ZeroMacros, hasItems |-> FALSE, items |-> <<>>]
      [] text.shape = "array" ->
           [nul |-> FALSE, notFound |-> FALSE, hasNums |-> FALSE, m |-> ZeroMacros, hasItems |-> FALSE, items |-> <<>>]
      [] text.shape = "items" ->
           [nul |-> FALSE, notFound |-> FALSE, hasNums |-> FALSE, m |-> ZeroMacros, hasItems |-> TRUE, items |-> text.items]
      [] OTHER -> [nul |-> FALSE, notFound |-> FALSE, hasNums |-> TRUE, m |-> text.m, hasItems |-> FALSE, items |-> <<>>]

\* Reply of supabase.functions.invoke: it rejects ("throw"), reports an error or
\* a not-ok / message-less body ("error"), or carries a text.
Invoke(kind, text) == [kind |-> kind, text |-> text]
\* Replies of the openai-chat function, and of the gemini-chat function.
OpenAIReplies ==
    {Invoke("throw", BlankText), Invoke("error", BlankText)}
        \cup { Invoke("text", t) : t \in {BlankText, LlmText("garbage", ZeroMacros), LlmText("macros", PosMacros)} }
GeminiReplies == {Invoke("throw", BlankText), Invoke("error", BlankText)} \cup { Invoke("text", t) : t \in LlmTexts }

\* Outcome of a call: it threw, or it returned value.
Threw == [threw |-> TRUE, value |-> NullResult]
Returned(v) == [threw |-> FALSE, value |-> v]

\* PROVIDERS[key] for key in {brand, generic, gemini}: static providers of
\* agents/shared/nutrition/providers.
ProviderOutcomes(key) ==
    {Threw, Returned(NullResult)} \cup { Returned(Result(m, 9, key)) : m \in {PosMacros, ProtOnlyMacros} }

\* lookupGlobalCache: .eq() matches a row only on a non-null value (a NULL brand
\* is matched by .is(), never by .eq()); the newest matching row is returned.
EqFilter(col, arg) == col # "" /\ arg # "" /\ col = arg
CacheMatches(normalized, table) ==
    { i \in 1..Len(table) : /\ EqFilter(table[i].normalized_name, NormName(normalized.name))
                            /\ EqFilter(table[i].brand, normalized.brand) }
lookupGlobalCache(normalized, table, queryFails) ==
    LET hits == CacheMatches(normalized, table) IN
    IF queryFails \/ hits = {} THEN NullResult
    ELSE LET row == table[CHOOSE i \in hits : \A j \in hits : j <= i] IN
         Result(row.macros, row.confidence, row.source)

\* lookupOpenAI: never throws; every field is parsed.<field> || 0.
lookupOpenAI(normalized, reply) ==
    IF reply.kind # "text" THEN NullResult
    ELSE LET parsed == safeJsonParse(reply.text) IN
         IF parsed.nul THEN NullResult
         ELSE Result(parsed.m, 8, "openai-fallback")

\* lookupBrandResolver, its return value.
lookupBrandResolver(normalized, reply) ==
    IF reply.kind # "text" THEN NullResult
    ELSE LET parsed == safeJsonParse(reply.text) IN
         IF parsed.nul \/ parsed.notFound THEN NullResult
         ELSE IF ~parsed.hasNums THEN NullResult
         ELSE Result(parsed.m, 8, "brand_resolver")

\* lookupBrandResolver, the row it inserts into global_nutrition_cache.
CacheRow(normalized, result) ==
    [normalized_name |-> NormName(normalized.name), brand |-> normalized.brand,
     macros |-> result.macros, source |-> "brand_resolver", confidence |-> result.confidence]
CacheAfterResolve(normalized, result, table, insertOk) ==
    IF ~result.nul /\ insertOk THEN Append(table, CacheRow(normalized, result)) ELSE table

\* Variant of ORDER with the generic provider ahead of the LLM slot for branded items.
ORDER_GenericBeforeLLM(normalized) ==
    IF normalized.is_branded
    THEN <<"brand", "generic", "openai", "brand_resolver">>
    ELSE <<"generic", "openai", "brand_resolver">>
\* const ORDER = normalized.is_branded ? ... : ... ; brand_resolver is in both
\* orders, so the push of lines 373-375 never applies.
ORDER(normalized) ==
    IF normalized.is_branded
    THEN (IF GEMINI_ENABLED THEN <<"brand", "gemini", "generic", "brand_resolver">>
                            ELSE <<"brand", "openai", "generic", "brand_resolver">>)
    ELSE (IF GEMINI_ENABLED THEN <<"generic", "gemini", "brand_resolver">>
                            ELSE <<"generic", "openai", "brand_resolver">>)

\* macroResult && macroResult.macros && macroResult.macros.kcal > 0
Found(r) == ~r.nul /\ r.hasMacros /\ r.macros.kcal > 0
\* !macroResult || !macroResult.macros || macroResult.macros.kcal === 0
Unresolved(r) == r.nul \/ ~r.hasMacros \/ r.macros.kcal = 0

\* The stub object; the variant carries a made-up calorie value.
StubResult_Guess == Result(Macros(1000, 0, 0, 0, 0), 1, "stub")
StubResult == Result(ZeroMacros, 1, "stub")

\* results.push({...item, calories: macroResult.macros.kcal || 0, ...})
ResultRow(item, r, providerUsed) ==
    [name |-> item.name, brand |-> item.brand,
     calories |-> r.macros.kcal, protein_g |-> r.macros.protein_g, carbs_g |-> r.macros.carbs_g,
     fat_g |-> r.macros.fat_g, fiber_g |-> r.macros.fiber_g,
     confidence |-> IF r.confidence = 0 THEN 1 ELSE r.confidence,
     source |-> IF r.source = "" THEN "unknown" ELSE r.source,
     provider |-> providerUsed]

\* Math.round of a value kept in tenths (halves go up).
Round(x) == ((x + 5) \div 10) * 10
RoundMacros(t) == Macros(Round(t.kcal), Round(t.protein_g), Round(t.carbs_g), Round(t.fat_g), Round(t.fiber_g))

\* results.reduce(...) over the five numeric fields.
RECURSIVE SumTotals(_)
SumTotals(rs) ==
    IF rs = <<>> THEN ZeroMacros
    ELSE LET t == SumTotals(Tail(rs)) r == Head(rs) IN
         Macros(t.kcal + r.calories, t.protein_g + r.protein_g, t.carbs_g + r.carbs_g,
                t.fat_g + r.fat_g, t.fiber_g + r.fiber_g)

\* Variant of the cascade's totals that rounds as it accumulates.
CascadeTotals_RoundedAccumulation(rs) == RoundMacros(SumTotals(rs))
\* const totals = results.reduce(...)
CascadeTotals(rs) == SumTotals(rs)

\* History entry: what a provider invocation yielded.
\* "unresolved": nothing, no macros, or zero calories (the code's own test);
\* "other": a value that is neither (negative calories).
OutcomeClass(o) ==
    CASE o.threw -> "throw"
      [] Unresolved(o.value) -> "unresolved"
      [] Found(o.value) -> "found"
      [] OTHER -> "other"
Call(key, phase, o) == [key |-> key, phase |-> phase, out |-> OutcomeClass(o)]

\* if (macroResult) after the cache lookup: any row is a hit.  The variant
\* applies the providers' kcal > 0 test to the cached row.
CacheHit_PositiveOnly(r) == Found(r)
CacheHit(r) == ~r.nul

\* A thrown provider call is caught and the loop continues with the next key.
\* In the variant a throw ends the loop.
LoopContinues_ThrowBreaks(threw, k, n) == ~threw /\ k < n
LoopContinues(threw, k, n) == k < n

SkillOf(provider) == "macro_lookup_" \o provider

CurItem == items[idx]

\* results.push(...) and the next iteration of the outer for loop.
PushResult(r, providerUsed, fired) ==
    /\ results' = Append(results, ResultRow(CurItem, r, providerUsed))
    /\ skillsFired' = skillsFired \cup fired
    /\ macroResult' = r
    /\ idx' = idx + 1
    /\ ordk' = 1
    /\ cpc' = "cache"

\* The two if-blocks after the inner loop, once the last-resort call returned r.
AfterLastResort(r) ==
    IF Unresolved(r)
    THEN PushResult(StubResult, "stub", IF r.nul THEN {} ELSE {SkillOf("brand_resolver")})
    ELSE PushResult(r, "brand_resolver", {SkillOf("brand_resolver")})

\* let macroResult = await lookupGlobalCache(normalized); if (macroResult) {...}
CacheLookupStep ==
    /\ cpc = "cache" /\ idx <= Len(items)
    /\ \E queryFails \in BOOLEAN :
         LET r == lookupGlobalCache(Normalized(CurItem), cache, queryFails) IN
         /\ calls' = <<[key |-> "global_cache", phase |-> "cache", out |-> IF r.nul THEN "miss" ELSE "hit"]>>
         /\ IF CacheHit(r)
            THEN PushResult(r, "global_cache", {SkillOf("global_cache")})
            ELSE /\ macroResult' = r /\ cpc' = "loop" /\ ordk' = 1
                 /\ UNCHANGED <<results, skillsFired, idx>>
    /\ UNCHANGED <<items, cache, totals, opc, mealVars, routeVars, handleVars, nutritionVars, llmVars, prefsVars>>

\* The outcomes of providerFn(normalized, userId) for key, with the cache table
\* each leaves behind.
CallOutcomes(key, normalized, table) ==
    CASE key = "openai" ->
           { [out |-> Returned(lookupOpenAI(normalized, reply)), table |-> table] : reply \in OpenAIReplies }
      [] key = "brand_resolver" ->
           { [out |-> Returned(lookupBrandResolver(normalized, reply)),
              table |-> CacheAfterResolve(normalized, lookupBrandResolver(normalized, reply), table, insertOk)] :
                 reply \in GeminiReplies, insertOk \in BOOLEAN }
      [] OTHER -> { [out |-> o, table |-> table] : o \in ProviderOutcomes(key) }

\* One iteration of for (const key of ORDER): the call, the kcal > 0 test and
\* break, the catch and continue; after the last key, the test for the last resort.
ProviderStep ==
    /\ cpc = "loop"
    /\ LET normalized == Normalized(CurItem)
           order == ORDER(normalized)
           key == order[ordk] IN
       \E c \in CallOutcomes(key, normalized, cache) :
         LET r == IF c.out.threw THEN macroResult ELSE c.out.value IN
         /\ cache' = c.table
         /\ calls' = Append(calls, Call(key, "loop", c.out))
         /\ IF ~c.out.threw /\ Found(r)
            THEN PushResult(r, key, {SkillOf(key)})
            ELSE IF LoopContinues(c.out.threw, ordk, Len(order))
            THEN /\ macroResult' = r /\ ordk' = ordk + 1
                 /\ UNCHANGED <<cpc, idx, results, skillsFired>>
            ELSE IF Unresolved(r)
            THEN /\ macroResult' = r /\ cpc' = "last"
                 /\ UNCHANGED <<ordk, idx, results, skillsFired>>
            ELSE PushResult(r, "global_cache", {})
    /\ UNCHANGED <<items, totals, opc, mealVars, routeVars, handleVars, nutritionVars, llmVars, prefsVars>>

\* macroResult = await lookupBrandResolver(normalized) as the final fallback, then
\* the stub.
LastResortStep ==
    /\ cpc = "last"
    /\ \E c \in CallOutcomes("brand_resolver", Normalized(CurItem), cache) :
         /\ cache' = c.table
         /\ calls' = Append(calls, Call("brand_resolver", "last", c.out))
         /\ AfterLastResort(c.out.value)
    /\ UNCHANGED <<items, totals, opc, mealVars, routeVars, handleVars, nutritionVars, llmVars, prefsVars>>

\* The totals and the return (the locals of the loop go out of scope).
ReturnStep ==
    /\ cpc = "cache" /\ idx > Len(items)
    /\ totals' = CascadeTotals(results)
    /\ cpc' = "done"
    /\ macroResult' = NullResult /\ calls' = <<>>
    /\ UNCHANGED <<items, cache, idx, ordk, results, skillsFired, opc, mealVars, routeVars, handleVars, nutritionVars, llmVars, prefsVars>>

\* processNutrition, step 4: the warnings over the cascade's items.
WarningsOf(row) ==
    (IF row.confidence < 7 THEN <<[type |-> "low_confidence", item |-> row.name]>> ELSE <<>>)
    \o (IF row.calories = 0 /\ row.protein_g = 0 /\ row.carbs_g = 0 /\ row.fat_g = 0
        THEN <<[type |-> "missing_portion", item |-> row.name]>> ELSE <<>>)
RECURSIVE Warnings(_)
Warnings(rs) == IF rs = <<>> THEN <<>> ELSE WarningsOf(Head(rs)) \o Warnings(Tail(rs))

\* Rows the cache may hold when the call starts.
SeedRows ==
    { [normalized_name |-> "egg", brand |-> "acme", macros |-> PosMacros, source |-> "brand_resolver", confidence |-> 8],
      [normalized_name |-> "bar", brand |-> "acme", macros |-> ZeroMacros, source |-> "brand_resolver", confidence |-> 8] }
SeedTables == {<<>>} \cup { <<r>> : r \in SeedRows }

RECURSIVE SeqsUpTo(_, _)
SeqsUpTo(S, n) ==
    IF n = 0 THEN {<<>>}
    ELSE LET shorter == SeqsUpTo(S, n - 1) IN
         shorter \cup { Append(q, x) : q \in shorter, x \in S }

\* message.startsWith("dev:force verify")
DevOverride(msg) == Len(msg) >= 2 /\ msg[1] = "dev:force" /\ msg[2] = "verify"

(***************************************************************************)
(* lookupMacrosInCascade under processNutrition, beside a second call      *)
(***************************************************************************)
\* Lists the sanitizer and the portion resolver may hand to the cascade.
BigMac == [name |-> "big mac", brand |-> "acme"]
Eggs == [name |-> "eggs", brand |-> NoBrand]
PortionedLists == {<<>>, <<BigMac>>, <<Eggs>>, <<BigMac, BigMac>>}

\* A second call of lookupMacrosInCascade, made by another request while this
\* one runs, for one item that its brand resolver finds.  It is reduced to its
\* accesses to the table: the select of lookupGlobalCache and, when that found
\* no row, the call of the brand resolver with its insert (the providers
\* called in between leave the table alone).
OtherItem == BigMac
OtherSelect ==
    /\ opc = "select"
    /\ \E queryFails \in BOOLEAN :
         opc' = IF CacheHit(lookupGlobalCache(Normalized(OtherItem), cache, queryFails)) THEN "hit" ELSE "missed"
    /\ UNCHANGED <<items, cache, cpc, idx, ordk, macroResult, results, skillsFired, totals, calls>>
    /\ UNCHANGED <<mealVars, routeVars, handleVars, nutritionVars, llmVars, prefsVars>>
OtherResolve ==
    /\ opc = "missed"
    /\ \E c \in CallOutcomes("brand_resolver", Normalized(OtherItem), cache) :
         /\ ~c.out.threw /\ Found(c.out.value)
         /\ cache' = c.table
         /\ opc' = "found"
    /\ UNCHANGED <<items, cpc, idx, ordk, macroResult, results, skillsFired, totals, calls>>
    /\ UNCHANGED <<mealVars, routeVars, handleVars, nutritionVars, llmVars, prefsVars>>

CascadeIdle ==
    /\ items = <<>> /\ cache = <<>> /\ cpc = "off" /\ idx = 1 /\ ordk = 1
    /\ macroResult = NullResult /\ results = <<>> /\ skillsFired = {}
    /\ totals = ZeroMacros /\ calls = <<>> /\ opc = "off"

CascadeInit ==
    /\ items \in SeqsUpTo(ItemSet, MaxItems)
    /\ cache \in SeedTables
    /\ cpc = "cache" /\ idx = 1 /\ ordk = 1
    /\ macroResult = NullResult /\ results = <<>> /\ skillsFired = {}
    /\ totals = ZeroMacros /\ calls = <<>> /\ opc = "off"

CascadeNext == CacheLookupStep \/ ProviderStep \/ LastResortStep \/ ReturnStep

(***************************************************************************)
(* Meal commit: logMeal                                                    *)
(***************************************************************************)
\* Outcome of a persistence call: it resolved without error ("ok"), resolved
\* with an error object ("error"), or rejected ("throw").
CallResults == {"ok", "error", "throw"}

\* Reply of supabase.rpc("log_meal_atomic"): threw, or { data, error } with
\* log_id 0 standing for a missing data / log_id.  wrote: the procedure
\* committed the meal (it did when it returned a log id, it did not when it
\* reported an error).
RpcReply(threw, error, log_id, wrote) == [threw |-> threw, error |-> error, log_id |-> log_id, wrote |-> wrote]
NewId(table) == 1 + Cardinality(table)
RpcReplies(table) ==
    {RpcReply(FALSE, FALSE, NewId(table), TRUE), RpcReply(FALSE, TRUE, 0, FALSE)}
        \cup { RpcReply(FALSE, FALSE, 0, w) : w \in BOOLEAN }
        \cup { RpcReply(TRUE, FALSE, 0, w) : w \in BOOLEAN }

\* if (!error && data?.log_id) return { ok: true, ... }.  The variant tests the
\* error alone.
RpcSucceeded_NoErrorOnly(reply) == ~reply.threw /\ ~reply.error
RpcSucceeded(reply) == ~reply.threw /\ ~reply.error /\ reply.log_id # 0

Pending == [state |-> "PENDING", ok |-> FALSE, log_id |-> 0, error |-> ""]
Committed(id) == [state |-> "COMMITTED", ok |-> TRUE, log_id |-> id, error |-> ""]
Failed(msg) == [state |-> "FAILED", ok |-> FALSE, log_id |-> 0, error |-> msg]
\* The call ended with an exception instead of a LogResult.
Escaped(msg) == [state |-> "THREW", ok |-> FALSE, log_id |-> 0, error |-> msg]

Op(name, out) == [op |-> name, out |-> out]
ItemRows(id, n) == { <<id, i>> : i \in 1..n }

\* await supabase.rpc("log_meal_atomic", ...) inside try / catch (_) {}
RpcStep ==
    /\ lpc = "rpc"
    /\ \E reply \in RpcReplies(logs) :
         /\ ops' = Append(ops, Op("rpc", CASE reply.threw -> "throw" [] reply.error -> "error"
                                          [] reply.log_id # 0 -> "ok" [] OTHER -> "no_id"))
         /\ atomicWrote' = reply.wrote
         /\ logs' = IF reply.wrote THEN logs \cup {NewId(logs)} ELSE logs
         /\ logItems' = IF reply.wrote THEN logItems \cup ItemRows(NewId(logs), nItems) ELSE logItems
         /\ IF RpcSucceeded(reply)
            THEN lret' = Committed(reply.log_id) /\ lpc' = "done"
            ELSE lret' = lret /\ lpc' = "head"
    /\ UNCHANGED <<nItems, logId, errMsg, cascadeVars, routeVars, handleVars, nutritionVars, llmVars, prefsVars>>

\* insert into nutrition_logs ... .select("id").single(); if (e1) throw e1
HeaderInsertStep ==
    /\ lpc = "head"
    /\ \E out \in CallResults :
         /\ ops' = Append(ops, Op("insert_header", out))
         /\ IF out = "ok"
            THEN /\ logs' = logs \cup {NewId(logs)} /\ logId' = NewId(logs)
                 /\ lpc' = "items" /\ UNCHANGED <<errMsg, lret>>
            ELSE \* caught with logId null: no rollback
                 /\ errMsg' = "insert_header " \o out
                 /\ lret' = Failed("insert_header " \o out) /\ lpc' = "done"
                 /\ UNCHANGED <<logs, logId>>
    /\ UNCHANGED <<nItems, logItems, atomicWrote, cascadeVars, routeVars, handleVars, nutritionVars, llmVars, prefsVars>>

\* insert into nutrition_log_items; if (e2) throw e2
ItemsInsertStep ==
    /\ lpc = "items"
    /\ \E out \in CallResults :
         /\ ops' = Append(ops, Op("insert_items", out))
         /\ IF out = "ok"
            THEN /\ logItems' = logItems \cup ItemRows(logId, nItems)
                 /\ lpc' = "totals" /\ UNCHANGED errMsg
            ELSE /\ errMsg' = "insert_items " \o out
                 /\ lpc' = "delItems" /\ UNCHANGED logItems
    /\ UNCHANGED <<nItems, logId, logs, atomicWrote, lret, cascadeVars, routeVars, handleVars, nutritionVars, llmVars, prefsVars>>

\* try { await supabase.rpc("upsert_daily_totals", ...) } catch (_) {}; return ok
DailyTotalsStep ==
    /\ lpc = "totals"
    /\ \E out \in CallResults :
         /\ ops' = Append(ops, Op("upsert_daily_totals", out))
         /\ lret' = Committed(logId) /\ lpc' = "done"
    /\ UNCHANGED <<nItems, logId, errMsg, logs, logItems, atomicWrote, cascadeVars, routeVars, handleVars, nutritionVars, llmVars, prefsVars>>

\* catch (err): if (logId) await delete from nutrition_log_items ...
DeleteItemsStep ==
    /\ lpc = "delItems"
    /\ \E out \in CallResults :
         /\ ops' = Append(ops, Op("delete_items", out))
         /\ logItems' = IF out = "ok" THEN { r \in logItems : r[1] # logId } ELSE logItems
         /\ IF out = "throw"
            THEN lret' = Escaped("delete_items throw") /\ lpc' = "done"
            ELSE lret' = lret /\ lpc' = "delHead"
    /\ UNCHANGED <<nItems, logId, errMsg, logs, atomicWrote, cascadeVars, routeVars, handleVars, nutritionVars, llmVars, prefsVars>>

\* ... await delete from nutrition_logs; return { ok: false, error: String(err.message) }
DeleteHeaderStep ==
    /\ lpc = "delHead"
    /\ \E out \in CallResults :
         /\ ops' = Append(ops, Op("delete_header", out))
         /\ logs' = IF out = "ok" THEN logs \ {logId} ELSE logs
         /\ lret' = IF out = "throw" THEN Escaped("delete_header throw") ELSE Failed(errMsg)
         /\ lpc' = "done"
    /\ UNCHANGED <<nItems, logId, errMsg, logItems, atomicWrote, cascadeVars, routeVars, handleVars, nutritionVars, llmVars, prefsVars>>

(***************************************************************************)
(* JavaScript numbers in the similarity computation: IEEE 754 binary64,    *)
(* round to nearest, ties to even.  A natural number is a sequence of      *)
(* limbs, least significant first, with no zero limb at the top; a double  *)
(* is sign * man * 2^exp with a mantissa man of exactly MantBits bits      *)
(* (man empty and sign 0 for zero).                                        *)
(***************************************************************************)
RECURSIVE IntBitLen(_)
IntBitLen(n) == IF n = 0 THEN 0 ELSE 1 + IntBitLen(n \div 2)
Limb == 128 * 128
LimbBits == IntBitLen(Limb - 1)
\* The 52 stored bits of the significand and the implicit leading one.
MantBits == 52 + 1
\* Bits computed below the mantissa before rounding.
Guard == MantBits + 3


RECURSIVE Pow2Int(_)
Pow2Int(n) == IF n = 0 THEN 1 ELSE 2 * Pow2Int(n - 1)

RECURSIVE Trim(_)
Trim(s) == IF s # <<>> /\ s[Len(s)] = 0 THEN Trim(SubSeq(s, 1, Len(s) - 1)) ELSE s
RECURSIVE Carry(_, _)
Carry(s, c) ==
    IF s = <<>> THEN (IF c = 0 THEN <<>> ELSE <<c % Limb>> \o Carry(<<>>, c \div Limb))
    ELSE LET t == Head(s) + c IN <<t % Limb>> \o Carry(Tail(s), t \div Limb)
Big(n) == Carry(<<>>, n)

LimbAt(x, i) == IF i >= 1 /\ i <= Len(x) THEN x[i] ELSE 0
BigAdd(x, y) ==
    LET n == IF Len(x) > Len(y) THEN Len(x) ELSE Len(y) IN
    Carry([i \in 1..n |-> LimbAt(x, i) + LimbAt(y, i)], 0)
\* x - y for x >= y.
RECURSIVE SubFrom(_, _, _, _)
SubFrom(x, y, i, borrow) ==
    IF i > Len(x) THEN <<>>
    ELSE LET t == x[i] - LimbAt(y, i) - borrow IN
         IF t < 0 THEN <<t + Limb>> \o SubFrom(x, y, i + 1, 1)
         ELSE <<t>> \o SubFrom(x, y, i + 1, 0)
BigSub(x, y) == Trim(SubFrom(x, y, 1, 0))

RECURSIVE ColSum(_, _, _, _)
ColSum(x, y, k, i) ==
    IF i > Len(x) \/ i > k THEN 0
    ELSE x[i] * LimbAt(y, k + 1 - i) + ColSum(x, y, k, i + 1)
BigMul(x, y) ==
    IF x = <<>> \/ y = <<>> THEN <<>>
    ELSE Trim(Carry([k \in 1..(Len(x) + Len(y) - 1) |-> ColSum(x, y, k, 1)], 0))

RECURSIVE CmpFrom(_, _, _)
CmpFrom(x, y, i) ==
    IF i = 0 THEN 0
    ELSE IF x[i] # y[i] THEN (IF x[i] < y[i] THEN -1 ELSE 1)
    ELSE CmpFrom(x, y, i - 1)
BigCmp(x, y) ==
    IF Len(x) # Len(y) THEN (IF Len(x) < Len(y) THEN -1 ELSE 1) ELSE CmpFrom(x, y, Len(x))

BitLen(x) == IF x = <<>> THEN 0 ELSE LimbBits * (Len(x) - 1) + IntBitLen(x[Len(x)])

BigPow2(k) == [i \in 1..(k \div LimbBits + 1) |-> IF i = k \div LimbBits + 1 THEN Pow2Int(k % LimbBits) ELSE 0]
BigShl(x, k) == BigMul(x, BigPow2(k))
BigShr(x, k) ==
    LET drop == k \div LimbBits
        r == Pow2Int(k % LimbBits)
        n == Len(x) - drop IN
    IF n <= 0 THEN <<>>
    ELSE Trim([i \in 1..n |-> x[i + drop] \div r + (LimbAt(x, i + drop + 1) % r) * (Limb \div r)])
IsOdd(x) == x # <<>> /\ x[1] % 2 = 1

\* The largest q with q * q <= x, and the largest q with q * d <= x, bit by bit
\* from bit i down.
RECURSIVE SqrtBits(_, _, _)
SqrtTry(x, q, c, i) ==
    IF BigCmp(BigMul(c, c), x) <= 0 THEN SqrtBits(x, c, i - 1) ELSE SqrtBits(x, q, i - 1)
SqrtBits(x, q, i) == IF i < 0 THEN q ELSE SqrtTry(x, q, BigAdd(q, BigPow2(i)), i)
BigSqrt(x) == SqrtBits(x, <<>>, BitLen(x) \div 2)
RECURSIVE DivBits(_, _, _, _)
DivTry(x, d, q, c, i) ==
    IF BigCmp(BigMul(c, d), x) <= 0 THEN DivBits(x, d, c, i - 1) ELSE DivBits(x, d, q, i - 1)
DivBits(x, d, q, i) == IF i < 0 THEN q ELSE DivTry(x, d, q, BigAdd(q, BigPow2(i)), i)
BigDiv(x, d) == IF BigCmp(x, d) < 0 THEN <<>> ELSE DivBits(x, d, <<>>, BitLen(x) - BitLen(d))

Double(sign, exp, man) == [nan |-> FALSE, sign |-> sign, exp |-> exp, man |-> man]
NaN == [nan |-> TRUE, sign |-> 0, exp |-> 0, man |-> <<>>]
Zero == Double(0, 0, <<>>)

\* sign * n * 2^exp, or the nearer of its two neighbours of MantBits bits, on
\* a tie the even one: s bits are cut from n, q is what stays, c compares what
\* was cut with half a unit of q, m is q rounded.
Renormal(sign, exp, m) ==
    IF BitLen(m) > MantBits THEN Double(sign, exp + 1, BigShr(m, 1)) ELSE Double(sign, exp, m)
RoundedUp(q, c) == IF c > 0 \/ (c = 0 /\ IsOdd(q)) THEN BigAdd(q, Big(1)) ELSE q
RoundCut(sign, n, exp, s, q) ==
    Renormal(sign, exp + s, RoundedUp(q, BigCmp(BigSub(n, BigShl(q, s)), BigPow2(s - 1))))
RoundBits(sign, n, exp, s) ==
    IF s <= 0 THEN Double(sign, exp + s, BigShl(n, 0 - s)) ELSE RoundCut(sign, n, exp, s, BigShr(n, s))
RoundDouble(sign, n, exp) ==
    IF n = <<>> \/ sign = 0 THEN Zero ELSE RoundBits(sign, n, exp, BitLen(n) - MantBits)

Abs(n) == IF n < 0 THEN 0 - n ELSE n
Sign(n) == IF n < 0 THEN -1 ELSE IF n > 0 THEN 1 ELSE 0
\* An integer, which a double holds exactly.
FromInt(n) == RoundDouble(Sign(n), Big(Abs(n)), 0)

\* The quotient or root q with one more bit below it, set when q is inexact
\* (back is q multiplied back, x what was divided or rooted).
WithSticky(q, back, x) == BigAdd(BigShl(q, 1), Big(IF BigCmp(back, x) = 0 THEN 0 ELSE 1))

\* Math.sqrt of a non-negative integer: the root to three more bits than the
\* mantissa, the last bit set when the root is inexact.
SqrtRounded(x, q) == RoundDouble(1, WithSticky(q, BigMul(q, q), x), 0 - Guard - 1)
SqrtScaled(x) == SqrtRounded(x, BigSqrt(x))
FSqrt(n) == IF n = 0 THEN Zero ELSE SqrtScaled(BigShl(Big(n), 2 * Guard))

\* x * y
FMul(x, y) ==
    IF x.nan \/ y.nan THEN NaN
    ELSE RoundDouble(x.sign * y.sign, BigMul(x.man, y.man), x.exp + y.exp)

\* x / y for finite x and y; 0 / 0 is NaN (a non-zero x over 0 is infinite and
\* has no representation here).
DivRounded(sign, exp, n, d, q) == RoundDouble(sign, WithSticky(q, BigMul(q, d), n), exp)
DivScaled(sign, exp, n, d) == DivRounded(sign, exp, n, d, BigDiv(n, d))
FDiv(x, y) ==
    IF x.nan \/ y.nan \/ y.sign = 0 THEN NaN
    ELSE IF x.sign = 0 THEN Zero
    ELSE DivScaled(x.sign * y.sign, x.exp - y.exp - Guard - 1, BigShl(x.man, Guard), y.man)

\* x > y (false when either is NaN).
FGt(x, y) ==
    /\ ~x.nan /\ ~y.nan
    /\ IF x.sign # y.sign THEN x.sign > y.sign
       ELSE IF x.sign = 0 THEN FALSE
       ELSE LET c == IF x.exp # y.exp THEN (IF x.exp > y.exp THEN 1 ELSE -1) ELSE BigCmp(x.man, y.man) IN
            IF x.sign > 0 THEN c > 0 ELSE c < 0
FGeq(x, y) == ~x.nan /\ ~y.nan /\ ~FGt(y, x)

(***************************************************************************)
(* Route cache (loadRoutesOnce, getCachedRoutes) and semantic router       *)
(***************************************************************************)
Callers == 1..MaxCallers

\* A route; hi / mid are percentages, -1 for a null threshold.
Route(name, embedding, hi, mid) == [name |-> name, embedding |-> embedding, hi_threshold |-> hi, mid_threshold |-> mid]
StoredRoutes ==
    << Route("TMWYA", <<1, 0>>, 80, 50), Route("AMA", <<0, 1>>, -1, -1), Route("KPI", <<>>, 85, 60) >>
\* A list whose first route has a zero-norm embedding.
OtherRoutes == << Route("KPI", <<0, 0>>, 85, 60), Route("TMWYA", <<1, 1>>, 90, 60) >>
\* Three routes along the axes of a three-dimensional embedding space.
UnitRoutes ==
    << Route("TMWYA", <<1, 0, 0>>, -1, -1), Route("AMA", <<0, 1, 0>>, -1, -1), Route("KPI", <<0, 0, 1>>, -1, -1) >>
\* Two routes with parallel embeddings and a hi threshold of 1.
ParallelRoutes == << Route("TMWYA", <<1, 1>>, 100, 60), Route("KPI", <<3, 3>>, 100, 60) >>
RouteLists == {StoredRoutes, OtherRoutes, UnitRoutes, ParallelRoutes}

\* What the embedding provider may return for a text, and what embed(prompt)
\* may return.
EmbedVectors == { <<1, 0>>, <<1, 1>>, <<1, 3>>, <<1, -1>>, <<0, 0>>, <<1, 0, 0>> }
EmbedResults == { <<>>, <<1, 0>>, <<1, 1>>, <<0, 0>> }
\* Vectors of the preference texts (<<1>> is shorter than the query's).
PrefVectors == { <<1, 0>>, <<1, 1>>, <<0, 0>>, <<1>> }

\* The module variable cached: null, or a list.
NullCache == [isNull |-> TRUE, routes |-> <<>>]
Cached(rs) == [isNull |-> FALSE, routes |-> rs]

\* Reply of the intent_routes query: it raises, or resolves to { data, error }.
StoreReply(kind, data) == [kind |-> kind, data |-> data]
StoreReplies ==
    { StoreReply("throw", NullCache), StoreReply("error", NullCache), StoreReply("data", NullCache),
      StoreReply("data", Cached(<<>>)), StoreReply("data", Cached(StoredRoutes)), StoreReply("data", Cached(OtherRoutes)) }

\* What loadRoutesOnce assigns to cached once the query settled:
\* [] on error or exception, data || [] otherwise.  The variant leaves the
\* cache null on a failure.
CacheAfterLoad_NullOnFailure(reply) ==
    IF reply.kind \in {"throw", "error"} THEN NullCache
    ELSE IF reply.data.isNull THEN Cached(<<>>) ELSE reply.data
CacheAfterLoad(reply) ==
    IF reply.kind \in {"throw", "error"} THEN Cached(<<>>)
    ELSE IF reply.data.isNull THEN Cached(<<>>) ELSE reply.data

\* getCachedRoutes: cached || []
getCachedRoutes(c) == IF c.isNull THEN <<>> ELSE c.routes

DefaultHi == 85
DefaultMid == 60
\* The numbers -1, 0 and 1.
MinusOne == FromInt(0 - 1)
One == FromInt(1)

RECURSIVE Dot(_, _, _)
Dot(a, b, i) == IF i > Len(a) THEN 0 ELSE a[i] * b[i] + Dot(a, b, i + 1)
\* The sums d, na and nb of the loop over the indices of a, for b at least as
\* long as a (sums of products of integers, which the doubles hold exactly).
Sums(a, b) == LET bb == SubSeq(b, 1, Len(a)) IN <<Dot(a, bb, 1), Dot(a, a, 1), Dot(bb, bb, 1)>>
\* d / (Math.sqrt(na) * Math.sqrt(nb))
Quotient(d, na, nb) == FDiv(FromInt(d), FMul(FSqrt(na), FSqrt(nb)))
\* The quotients for the vectors of the model, computed once.
KnownSums ==
    { Sums(p[1], p[2]) :
        p \in { v \in (EmbedVectors \cup EmbedResults)
                         \X (PrefVectors \cup UNION { { rs[i].embedding : i \in 1..Len(rs) } : rs \in RouteLists }) :
                  Len(v[2]) >= Len(v[1]) } }
KnownQuotients == [s \in KnownSums |-> Quotient(s[1], s[2], s[3])]
\* cosine: a b[i] missing for an index of a makes every sum NaN, and a zero
\* norm gives 0 / 0.
cosine(a, b) ==
    IF Len(b) < Len(a) THEN NaN
    ELSE LET s == Sums(a, b) IN
         IF s \in KnownSums THEN KnownQuotients[s] ELSE Quotient(s[1], s[2], s[3])

\* A threshold, kept as a percentage, as the double the code compares with;
\* those of the routes of the model are computed once.
KnownThresholds ==
    [pct \in {DefaultHi, DefaultMid}
              \cup UNION { UNION { {rs[i].hi_threshold, rs[i].mid_threshold} \cap Nat : i \in 1..Len(rs) } : rs \in RouteLists } |->
        FDiv(FromInt(pct), FromInt(100))]
Threshold(pct) ==
    IF pct \in DOMAIN KnownThresholds THEN KnownThresholds[pct] ELSE FDiv(FromInt(pct), FromInt(100))
\* sim >= threshold
SimGeq(x, pct) == FGeq(x, Threshold(pct))

Best(name, sim, hi, mid) == [name |-> name, sim |-> sim, hi |-> hi, mid |-> mid]
SeedBest == Best("AMA", MinusOne, DefaultHi, DefaultMid)

\* Variant of the loop that replaces the best match on an equal similarity.
\* The route r at similarity sim as a best match: { name, sim, hi, mid }.
Scored(r, sim) ==
    Best(r.name, sim, IF r.hi_threshold = -1 THEN DefaultHi ELSE r.hi_threshold,
         IF r.mid_threshold = -1 THEN DefaultMid ELSE r.mid_threshold)
Better_LastOnTies(best, r, sim) == IF ~sim.nan /\ ~FGt(best.sim, sim) THEN Scored(r, sim) ELSE best
RECURSIVE Scan_LastOnTies(_, _, _, _)
Scan_LastOnTies(q, routes, i, best) ==
    IF i > Len(routes) THEN best
    ELSE IF routes[i].embedding = <<>> THEN Scan_LastOnTies(q, routes, i + 1, best)
    ELSE Scan_LastOnTies(q, routes, i + 1, Better_LastOnTies(best, routes[i], cosine(q, routes[i].embedding)))
\* if (sim > best.sim) best = { name, sim, hi, mid }
Better(best, r, sim) == IF FGt(sim, best.sim) THEN Scored(r, sim) ELSE best
\* The for loop of decideRoute over routes[i..].
RECURSIVE Scan(_, _, _, _)
Scan(q, routes, i, best) ==
    IF i > Len(routes) THEN best
    ELSE IF routes[i].embedding = <<>> THEN Scan(q, routes, i + 1, best)
    ELSE Scan(q, routes, i + 1, Better(best, routes[i], cosine(q, routes[i].embedding)))

Decision(route, confidence, sim, hi, mid) ==
    [route |-> route, confidence |-> confidence, sim |-> sim, hi |-> hi, mid |-> mid]
NoDecision == Decision("", "", NaN, 0, 0)

\* Variant of decideRoute that classifies against the default thresholds
\* whatever the best route's own are.
Classify_DefaultThresholds(best, level) ==
    Decision(IF level = "low" THEN "AMA" ELSE best.name, level, best.sim, DefaultHi, DefaultMid)
Decide_DefaultThresholds(best) ==
    Classify_DefaultThresholds(best, IF SimGeq(best.sim, DefaultHi) THEN "high"
                                     ELSE IF SimGeq(best.sim, DefaultMid) THEN "mid" ELSE "low")
decideRoute_DefaultThresholds(q, routes) ==
    IF q = <<>> THEN Decision("AMA", "low", Zero, DefaultHi, DefaultMid)
    ELSE Decide_DefaultThresholds(Scan(q, routes, 1, SeedBest))
\* Variant of decideRoute that returns the best route's name at any confidence.
\* const level = best.sim >= best.hi ? "high" : best.sim >= best.mid ? "mid" : "low"
Level(best) ==
    IF SimGeq(best.sim, best.hi) THEN "high" ELSE IF SimGeq(best.sim, best.mid) THEN "mid" ELSE "low"
Classify_RouteOfBest(best, level) == Decision(best.name, level, best.sim, best.hi, best.mid)
Decide_RouteOfBest(best) == Classify_RouteOfBest(best, Level(best))
decideRoute_RouteOfBest(q, routes) ==
    IF q = <<>> THEN Decision("AMA", "low", Zero, DefaultHi, DefaultMid)
    ELSE Decide_RouteOfBest(Scan(q, routes, 1, SeedBest))
\* decideRoute(prompt, routes), q being what embed(prompt) returned ([] when
\* the embedding failed).
\* return { route: level === "low" ? "AMA" : best.name, confidence: level, ... }
Classify(best, level) ==
    Decision(IF level = "low" THEN "AMA" ELSE best.name, level, best.sim, best.hi, best.mid)
Decide(best) == Classify(best, Level(best))
decideRoute(q, routes) ==
    IF q = <<>> THEN Decision("AMA", "low", Zero, DefaultHi, DefaultMid)
    ELSE Decide(Scan(q, routes, 1, SeedBest))

\* loadRoutesOnce up to its await: if (cached) return cached; else issue the query.
LoadEnter(c) ==
    /\ rpc[c] = "start"
    /\ IF ~cached.isNull
       THEN /\ rret' = [rret EXCEPT ![c] = [kind |-> "cached", value |-> cached]]
            /\ rpc' = [rpc EXCEPT ![c] = "loaded"]
            /\ UNCHANGED fetches
       ELSE /\ fetches' = fetches + 1
            /\ rpc' = [rpc EXCEPT ![c] = "fetching"]
            /\ UNCHANGED rret
    /\ UNCHANGED <<cached, writes, decision, cascadeVars, mealVars, handleVars, nutritionVars, llmVars, prefsVars>>

\* loadRoutesOnce after its await: assign cached and return it.
LoadComplete(c) ==
    /\ rpc[c] = "fetching"
    /\ \E reply \in StoreReplies :
         /\ cached' = CacheAfterLoad(reply)
         /\ writes' = writes + 1
         /\ rret' = [rret EXCEPT ![c] = [kind |-> reply.kind, value |-> CacheAfterLoad(reply)]]
    /\ rpc' = [rpc EXCEPT ![c] = "loaded"]
    /\ UNCHANGED <<fetches, decision, cascadeVars, mealVars, handleVars, nutritionVars, llmVars, prefsVars>>

\* handleUserMessage, full semantic routing: decideRoute(message, getCachedRoutes())
RouteStep(c) ==
    /\ rpc[c] = "loaded"
    /\ \E q \in EmbedResults :
         decision' = [decision EXCEPT ![c] = [routes |-> getCachedRoutes(cached), d |-> decideRoute(q, getCachedRoutes(cached))]]
    /\ rpc' = [rpc EXCEPT ![c] = "routed"]
    /\ UNCHANGED <<cached, rret, fetches, writes, cascadeVars, mealVars, handleVars, nutritionVars, llmVars, prefsVars>>

(***************************************************************************)
(* handleUserMessage: preferences, routing with the fast path, and the     *)
(* choice of the nutrition branch                                          *)
(***************************************************************************)
\* A message is kept as the list of its whitespace-separated tokens
\* (message.split(/\s+/)), in lower case; the tests of the code are all
\* case-insensitive and match words between word boundaries (\b...\b), so a
\* word is found in a token that holds punctuation next to it.
M_Hi == <<"hi", "pat">>
M_QuestionAte == <<"how", "many", "calories", "in", "the", "eggs", "i", "had">>
M_Ate == <<"i", "ate", "2", "eggs">>
M_WhatAre == <<"what", "are", "the", "macros", "for", "chicken">>
M_Verify == <<"verify", "i", "ate", "eggs", "today">>
M_Long == <<"i", "had", "a", "burger", "and", "fries", "and", "a", "salad", "for", "my", "lunch">>
M_LongQuestion == <<"tell", "me", "the", "macros", "for", "the", "steak", "and", "the", "rice", "i", "ate">>
M_Comma == <<"ate", "a", "and", "eggs,", "toast">>
Messages == {M_Hi, M_QuestionAte, M_Ate, M_WhatAre, M_Verify, M_Long, M_LongQuestion, M_Comma}

\* Tokens of the vocabulary that end in a comma, and the token without it.
CommaWords == {"eggs,"}
StripComma(w) == IF w = "eggs," THEN "eggs" ELSE w
\* The words a token holds between word boundaries, the word it starts with
\* and the word it ends with ("" when it ends in punctuation).
WordsOf(t) == IF t = "dev:force" THEN {"dev", "force"} ELSE {StripComma(t)}
FirstWordOf(t) == IF t = "dev:force" THEN "dev" ELSE StripComma(t)
LastWordOf(t) == IF t = "dev:force" THEN "force" ELSE IF t \in CommaWords THEN "" ELSE t

\* \b(w1|w2|...)\b for single words.
HasWord(msg, S) == \E i \in 1..Len(msg) : WordsOf(msg[i]) \cap S # {}
\* \b(w1\s+w2 ...)\b for a phrase of two or more words: the first word ends a
\* token, the last starts one, the words between are whole tokens.
HasPhrase(msg, ph) ==
    \E i \in 1..Len(msg) :
      LET n == Len(ph) IN
      /\ i + n - 1 <= Len(msg)
      /\ LastWordOf(msg[i]) = ph[1]
      /\ \A j \in 2..(n - 1) : msg[i + j - 1] = ph[j]
      /\ FirstWordOf(msg[i + n - 1]) = ph[n]

\* TRIGGER_WORDS; YearWords are the words of the vocabulary matching 20\d{2}|19\d{2}.
YearWords == {"1999", "2024"}
TRIGGER_WORDS(msg) ==
    \/ HasWord(msg, {"source", "link", "links", "cite", "verify", "latest", "current", "news", "today"})
    \/ HasPhrase(msg, <<"this", "week">>)
    \/ HasWord(msg, YearWords)

\* message.split(/\s+/).length < 12 && !TRIGGER_WORDS.test(message)
FastPathWords == 12
FastPath(msg) == Len(msg) < FastPathWords /\ ~TRIGGER_WORDS(msg)

mentionsMacros(msg) ==
    HasWord(msg, {"macro", "macros", "calories", "protein", "carb", "carbs", "fat", "nutrition", "kcal", "kcals"})
mealLoggingCue(msg) ==
    \/ HasPhrase(msg, <<"i", "ate">>) \/ HasPhrase(msg, <<"i", "had">>) \/ HasPhrase(msg, <<"i", "logged">>)
    \/ HasPhrase(msg, <<"log", "this", "meal">>) \/ HasPhrase(msg, <<"log", "my", "meal">>)
    \/ HasWord(msg, {"ate", "had"})
foodIndicator(msg) ==
    HasWord(msg, {"egg", "eggs", "steak", "ribeye", "chicken", "oatmeal", "salad", "burger", "fries",
                  "sandwich", "pizza", "rice", "smoothie", "meal", "breakfast", "lunch", "dinner"})
isMealLoggingMessage(msg) == mealLoggingCue(msg) /\ foodIndicator(msg)
isNutritionQuery(msg) == mentionsMacros(msg) \/ isMealLoggingMessage(msg)

\* Reply of supabase.functions.invoke('embed'): the call rejects ("throw"),
\* reports an error ("error"), carries a body whose ok is not truthy ("notok"),
\* a body with no vector array ("novecs"), or a body with the array vecs.
EmbedReply(kind, vecs) == [kind |-> kind, vecs |-> vecs]
EmbedReplies ==
    { EmbedReply(k, <<>>) : k \in {"throw", "error", "notok", "novecs"} }
        \cup { EmbedReply("vecs", <<>>), EmbedReply("vecs", << <<>> >>) }
        \cup { EmbedReply("vecs", <<v>>) : v \in EmbedVectors }

\* getEmbeddings: throws unless the reply carries an array of vectors.
getEmbeddings(reply) ==
    IF reply.kind = "vecs" THEN [threw |-> FALSE, vecs |-> reply.vecs]
    ELSE [threw |-> TRUE, vecs |-> <<>>]
\* Variant of embed that answers a zero vector when no vector came back.
embed_ZeroVectorOnFailure(reply) ==
    LET g == getEmbeddings(reply) IN
    IF g.threw \/ g.vecs = <<>> \/ g.vecs[1] = <<>> THEN <<0, 0>> ELSE g.vecs[1]
\* embed: vectors[0] || [], and [] when getEmbeddings throws.
embed(reply) ==
    LET g == getEmbeddings(reply) IN
    IF g.threw \/ g.vecs = <<>> THEN <<>> ELSE g.vecs[1]

\* The routes decideRoute computes a similarity against.
ScoredRoutes(q, routes) ==
    IF q = <<>> THEN {} ELSE { i \in 1..Len(routes) : routes[i].embedding # <<>> }

\* rankTopPreferences: the number of calls it makes to the embedding provider.
\* prefs: outcome of the user_preferences query ("throw", "error", "none" for
\* no row, "rows"); queryReply: the reply to the embedding of the message.
PrefsOutcomes == {"throw", "error", "none", "rows"}
PrefsEmbedCalls(prefs, queryReply) ==
    IF prefs # "rows" THEN 0
    ELSE IF embed(queryReply) = <<>> THEN 1
    ELSE 2

\* routeDecision: the decision and the intent mapped from its route.
WithIntent(d, intent) ==
    [route |-> d.route, confidence |-> d.confidence, sim |-> d.sim, hi |-> d.hi, mid |-> d.mid, intent |-> intent]
NoRouteDecision == WithIntent(NoDecision, "")
NoEmbedReply == EmbedReply("none", <<>>)
NoScan == [fast |-> FALSE, reply |-> NoEmbedReply, q |-> <<>>, routes |-> <<>>, scored |-> {}, best |-> SeedBest]
NoCall == [branch |-> "none", showLogButton |-> FALSE, modelUsed |-> ""]

\* await loadRoutesOnce(supabase), up to its await: the test of cached and the
\* query issued when it is null.
HandleLoadEnter ==
    /\ hpc = "load"
    /\ IF ~cached.isNull
       THEN hpc' = "prefs" /\ UNCHANGED fetches
       ELSE hpc' = "loading" /\ fetches' = fetches + 1
    /\ UNCHANGED <<cached, writes, rpc, rret, decision, hmsg, embedCalls, routeDecision, hscan, hcall>>
    /\ UNCHANGED <<cascadeVars, mealVars, nutritionVars, llmVars, prefsVars>>

\* loadRoutesOnce after its await: the query settled and cached is assigned,
\* whatever another request assigned in between.
HandleLoadComplete ==
    /\ hpc = "loading"
    /\ \E reply \in StoreReplies :
         /\ cached' = CacheAfterLoad(reply)
         /\ writes' = writes + 1
    /\ hpc' = "prefs"
    /\ UNCHANGED <<fetches, rpc, rret, decision, hmsg, embedCalls, routeDecision, hscan, hcall>>
    /\ UNCHANGED <<cascadeVars, mealVars, nutritionVars, llmVars, prefsVars>>

\* const prefs = await rankTopPreferences(context.userId, message, supabase, 3)
HandlePrefs ==
    /\ hpc = "prefs"
    /\ \E prefs \in PrefsOutcomes, queryReply \in EmbedReplies :
         embedCalls' = embedCalls + PrefsEmbedCalls(prefs, queryReply)
    /\ hpc' = "route"
    /\ UNCHANGED <<hmsg, routeDecision, hscan, hcall>>
    /\ UNCHANGED <<cascadeVars, mealVars, routeVars, nutritionVars, llmVars, prefsVars>>

\* Step 1.5: the fast path, or decideRoute(message, getCachedRoutes()) and the
\* mapping of the route to an intent.
HandleRoute ==
    /\ hpc = "route"
    /\ IF FastPath(hmsg)
       THEN /\ routeDecision' = WithIntent(Decision("AMA", "low", Zero, DefaultHi, DefaultMid), "ama")
            /\ hscan' = [fast |-> TRUE, reply |-> NoEmbedReply, q |-> <<>>, routes |-> <<>>, scored |-> {},
                         best |-> SeedBest]
            /\ UNCHANGED embedCalls
       ELSE \E reply \in EmbedReplies :
              LET routes == getCachedRoutes(cached)
                  q == embed(reply)
                  d == decideRoute(q, routes) IN
              /\ routeDecision' = WithIntent(d, IF d.route = "TMWYA" THEN "meal_logging" ELSE "ama")
              /\ hscan' = [fast |-> FALSE, reply |-> reply, q |-> q, routes |-> routes,
                           scored |-> ScoredRoutes(q, routes), best |-> Scan(q, routes, 1, SeedBest)]
              /\ embedCalls' = embedCalls + 1
    /\ hpc' = "branch"
    /\ UNCHANGED <<hmsg, hcall>>
    /\ UNCHANGED <<cascadeVars, mealVars, routeVars, nutritionVars, llmVars, prefsVars>>

\* The branch for a decision and a message (the early TMWYA branch, the AMA
\* nutrition branch, or general chat), and the showLogButton it passes.
BranchOf(d, msg) ==
    IF d.route = "TMWYA" THEN "tmwya"
    ELSE IF d.route = "AMA" /\ isNutritionQuery(msg) THEN "ama_nutrition"
    ELSE "chat"
ShowLogOf(d, msg) ==
    IF d.route = "TMWYA" THEN TRUE ELSE d.intent = "meal_logging" \/ isMealLoggingMessage(msg)

\* The choice of the branch.  General chat goes on to the model selection; a
\* nutrition branch imports the pipeline (an import that rejects is caught and
\* falls through to general chat) and calls processNutrition, whose steps are
\* those of the call from here on.
HandleBranch ==
    /\ hpc = "branch"
    /\ LET branch == BranchOf(routeDecision, hmsg)
           show == ShowLogOf(routeDecision, hmsg) IN
       IF branch = "chat"
       THEN /\ hcall' = [branch |-> "chat", showLogButton |-> FALSE, modelUsed |-> "chat"]
            /\ hpc' = "done"
            /\ UNCHANGED nutritionVars
       ELSE \/ /\ hcall' = [branch |-> branch, showLogButton |-> show, modelUsed |-> ""]
               /\ hpc' = "nutrition"
               /\ npc' = "normalize" /\ nmsg' = hmsg /\ nshow' = show
               /\ UNCHANGED <<nreply, parsedItems, macroResults, nres>>
            \/ /\ hcall' = [branch |-> branch, showLogButton |-> show, modelUsed |-> "chat"]
               /\ hpc' = "done"
               /\ UNCHANGED nutritionVars
    /\ UNCHANGED <<hmsg, embedCalls, routeDecision, hscan>>
    /\ UNCHANGED <<cascadeVars, mealVars, routeVars, llmVars, prefsVars>>

\* processNutrition returned: the card when it answered success with roleData,
\* general chat otherwise.
HandleReturn ==
    /\ hpc = "nutrition" /\ npc = "done"
    /\ hcall' = [hcall EXCEPT !.modelUsed =
                    IF ~nres.success THEN "chat"
                    ELSE IF hcall.branch = "tmwya" THEN "tmwya-pipeline" ELSE "nutrition-unified"]
    /\ hpc' = "done"
    /\ UNCHANGED <<hmsg, embedCalls, routeDecision, hscan>>
    /\ UNCHANGED <<cascadeVars, mealVars, routeVars, nutritionVars, llmVars, prefsVars>>

(***************************************************************************)
(* processNutrition: normalizer, fallback parser, verification view        *)
(***************************************************************************)
M_Dev == <<"dev:force", "verify">>
M_CommaAnd == <<"ate", "eggs,", "and", "toast">>
M_Year == <<"i", "ate", "1999", "eggs", "and", "2024">>
NutritionMessages == {M_Ate, M_Year, M_WhatAre, M_Comma, M_CommaAnd, M_Dev}

\* The tokens of the vocabulary made of digits only, with their value
\* (parseFloat, in tenths).
NumWords == {"2", "3"} \cup YearWords
NumValue(w) == CASE w = "2" -> 20 [] w = "3" -> 30 [] w = "1999" -> 19990 [] OTHER -> 20240
\* A token of several digits split before its last digit: the value of the
\* digits ahead of it, and the digit.
LeadingValue(w) == IF w = "1999" THEN 1990 ELSE 2020
LastDigit(w) == IF w = "1999" THEN "9" ELSE "4"

\* A normalized item; amount -1 and unit "" stand for null.
Item(name, amount, unit) == [name |-> name, amount |-> amount, unit |-> unit]

RECURSIVE JoinWords(_)
JoinWords(ws) ==
    IF ws = <<>> THEN ""
    ELSE IF Len(ws) = 1 THEN ws[1]
    ELSE ws[1] \o " " \o JoinWords(Tail(ws))

\* message.replace(/^(i ate|i had|ate|had)\s+/i, '').trim()
StripEatingPrefix(msg) ==
    IF Len(msg) >= 3 /\ SubSeq(msg, 1, 2) \in {<<"i", "ate">>, <<"i", "had">>} THEN SubSeq(msg, 3, Len(msg))
    ELSE IF Len(msg) >= 2 /\ msg[1] \in {"ate", "had"} THEN Tail(msg)
    ELSE msg

\* cleanMsg.split(/,\s+| and | with | plus /i): the pieces, from token i on,
\* cur being the piece under construction.  Each separator takes the blanks
\* around it: blank tells whether the blank before token i is still there (it
\* is not at the start, nor after a separator that took it), and a separator
\* word with no blank before it or after it stays in its piece.
RECURSIVE SplitPieces(_, _, _, _)
SplitPieces(ws, i, cur, blank) ==
    IF i > Len(ws) THEN <<cur>>
    ELSE IF ws[i] \in {"and", "with", "plus"} /\ blank /\ i < Len(ws)
    THEN <<cur>> \o SplitPieces(ws, i + 1, <<>>, FALSE)
    ELSE IF ws[i] \in CommaWords /\ i < Len(ws)
    THEN <<Append(cur, StripComma(ws[i]))>> \o SplitPieces(ws, i + 1, <<>>, FALSE)
    ELSE SplitPieces(ws, i + 1, Append(cur, ws[i]), TRUE)

\* trimmed.match(/^(\d+(?:\.\d+)?)\s*(.+)$/): a leading run of digits and the
\* rest.  (.+) needs a character: when the piece is one token of digits, \d+
\* gives its last digit back to (.+), and a single digit alone does not match.
PieceItem(piece) ==
    IF Len(piece) >= 2 /\ piece[1] \in NumWords
    THEN Item(JoinWords(Tail(piece)), NumValue(piece[1]), "")
    ELSE IF Len(piece) = 1 /\ piece[1] \in YearWords
    THEN Item(LastDigit(piece[1]), LeadingValue(piece[1]), "")
    ELSE Item(JoinWords(piece), -1, "")

RECURSIVE MapPieces(_)
MapPieces(pieces) ==
    IF pieces = <<>> THEN <<>> ELSE <<PieceItem(Head(pieces))>> \o MapPieces(Tail(pieces))

\* fallbackNLU
fallbackNLU(msg) ==
    SelectSeq(MapPieces(SplitPieces(StripEatingPrefix(msg), 1, <<>>, FALSE)),
              LAMBDA x : x.name # "" /\ x.name # "a")

\* Text of the normalizer's reply.  brace: the trimmed text starts with '{' or
\* '['; shape as for LlmText, with "array" (a JSON array) and "items" (an
\* object whose items field is the array its).
NormText(shape, brace, its) == [shape |-> shape, m |-> ZeroMacros, brace |-> brace, items |-> its]
LlmItems == { <<>>, <<Item("eggs", 20, "piece")>>, <<Item("big mac", 10, "piece"), Item("fries", -1, "")>> }
NormTexts ==
    { NormText("garbage", FALSE, <<>>), NormText("garbage", TRUE, <<>>),
      NormText("array", TRUE, <<>>), NormText("notfound", TRUE, <<>>) }
        \cup { NormText("items", TRUE, its) : its \in LlmItems }

\* Reply of supabase.functions.invoke('openai-chat') to the normalizer: the
\* call rejects ("throw"), reports an error ("error"), carries no message
\* ("nomessage"), or carries a text.
NormReply(kind, text) == [kind |-> kind, text |-> text]
NormReplies ==
    { NormReply(k, NormText("garbage", FALSE, <<>>)) : k \in {"throw", "error", "nomessage"} }
        \cup { NormReply("text", t) : t \in NormTexts }

\* Step 1 of processNutrition after the call: parsedItems.
NormalizerItems(reply, msg) ==
    IF reply.kind # "text" THEN fallbackNLU(msg)
    ELSE IF ~reply.text.brace THEN fallbackNLU(msg)
    ELSE LET parsed == safeJsonParse(reply.text) IN
         IF ~parsed.nul /\ parsed.hasItems THEN parsed.items ELSE fallbackNLU(msg)

MacroResults(rows) == [items |-> rows, totals |-> SumTotals(rows)]
NoMacroResults == MacroResults(<<>>)

\* tef.kcal as computeTEF may return it (in tenths).
TefValues == {0, 145}

ViewRow(i) ==
    [name |-> i.name, calories |-> Round(i.calories), protein_g |-> Round(i.protein_g),
     carbs_g |-> Round(i.carbs_g), fat_g |-> Round(i.fat_g), fiber_g |-> Round(i.fiber_g), editable |-> TRUE]
RECURSIVE ViewRows(_)
ViewRows(rs) == IF rs = <<>> THEN <<>> ELSE <<ViewRow(Head(rs))>> \o ViewRows(Tail(rs))

\* The variant offers the commit action only when showLogButton is set.
ViewActions_CommitOnlyWhenLogging(showLogButton) ==
    IF showLogButton THEN <<"CONFIRM_LOG", "EDIT_ITEMS", "CANCEL">> ELSE <<"EDIT_ITEMS", "CANCEL">>
\* actions: ['CONFIRM_LOG', 'EDIT_ITEMS', 'CANCEL']
ViewActions(showLogButton) == <<"CONFIRM_LOG", "EDIT_ITEMS", "CANCEL">>

\* Variant of the view whose totals are the sums of its rounded rows.
VerifyView_TotalsFromRows(mr, tefKcal, showLogButton) ==
    [rows |-> ViewRows(mr.items), totals |-> SumTotals(ViewRows(mr.items)), tef |-> Round(tefKcal),
     actions |-> ViewActions(showLogButton), warnings |-> Warnings(mr.items)]
\* Step 5: the verification view.
VerifyView(mr, tefKcal, showLogButton) ==
    [rows |-> ViewRows(mr.items), totals |-> RoundMacros(mr.totals), tef |-> Round(tefKcal),
     actions |-> ViewActions(showLogButton), warnings |-> Warnings(mr.items)]

\* The result of processNutrition.  calcInput is history: the totals passed to
\* computeTEF and computeTDEE.
NutritionResult(success, view, its, tot, tef, calcInput) ==
    [success |-> success, view |-> view, items |-> its, totals |-> tot, tef |-> tef, calcInput |-> calcInput]
NoView == [rows |-> <<>>, totals |-> ZeroMacros, tef |-> 0, actions |-> <<>>, warnings |-> <<>>]
NoResult == NutritionResult(FALSE, NoView, <<>>, ZeroMacros, 0, ZeroMacros)
\* Step 6: roleData.
RoleData(mr, tefKcal, showLogButton) ==
    LET verify == VerifyView(mr, tefKcal, showLogButton) IN
    NutritionResult(TRUE, verify, mr.items, verify.totals, verify.tef, mr.totals)

\* The static result of the dev override.
DevRows ==
    << [name |-> "big mac", calories |-> 2190, protein_g |-> 91, carbs_g |-> 210, fat_g |-> 120, fiber_g |-> 3],
       [name |-> "large fries", calories |-> 3230, protein_g |-> 38, carbs_g |-> 410, fat_g |-> 160, fiber_g |-> 35] >>
DevTotals == Macros(5420, 129, 620, 280, 38)
DevViewRow(r) ==
    [name |-> r.name, calories |-> r.calories, protein_g |-> r.protein_g, carbs_g |-> r.carbs_g,
     fat_g |-> r.fat_g, fiber_g |-> r.fiber_g, editable |-> TRUE]
DevResult ==
    NutritionResult(TRUE,
        [rows |-> <<DevViewRow(DevRows[1]), DevViewRow(DevRows[2])>>, totals |-> DevTotals, tef |-> 540,
         actions |-> <<"CONFIRM_LOG", "EDIT_ITEMS", "CANCEL">>, warnings |-> <<>>],
        DevRows, DevTotals, 540, ZeroMacros)

NoNormReply == NormReply("none", NormText("garbage", FALSE, <<>>))

\* The dev override, or step 1: the normalizer call and parsedItems.  A call
\* that rejects is caught by the outer catch.
NormalizeStep ==
    /\ npc = "normalize"
    /\ IF DevOverride(nmsg)
       THEN /\ nres' = DevResult /\ npc' = "done" /\ UNCHANGED <<nreply, parsedItems>>
       ELSE \E reply \in NormReplies :
              /\ nreply' = reply
              /\ IF reply.kind = "throw"
                 THEN /\ npc' = "done" /\ UNCHANGED <<nres, parsedItems>>
                 ELSE /\ parsedItems' = NormalizerItems(reply, nmsg)
                      /\ npc' = "lookup" /\ UNCHANGED nres
    /\ UNCHANGED <<nmsg, nshow, macroResults>>
    /\ UNCHANGED <<cascadeVars, mealVars, routeVars, handleVars, llmVars, prefsVars>>

\* Steps 1.5 and 2: the sanitizer or the portion resolver throws, or they
\* hand the portioned items to lookupMacrosInCascade, whose steps are those of
\* the cascade above.
LookupStart ==
    /\ npc = "lookup"
    /\ \/ \E its \in PortionedLists :
            /\ items' = its /\ cpc' = "cache" /\ idx' = 1 /\ ordk' = 1
            /\ macroResult' = NullResult /\ results' = <<>> /\ skillsFired' = {}
            /\ totals' = ZeroMacros /\ calls' = <<>>
            /\ npc' = "cascade"
       \/ /\ npc' = "done"
          /\ UNCHANGED <<items, cpc, idx, ordk, macroResult, results, skillsFired, totals, calls>>
    /\ UNCHANGED <<cache, opc, nmsg, nshow, nreply, parsedItems, macroResults, nres>>
    /\ UNCHANGED <<mealVars, routeVars, handleVars, llmVars, prefsVars>>

\* const macroResults = await lookupMacrosInCascade(portioned, userId): the
\* call returned its rows and totals.
LookupReturn ==
    /\ npc = "cascade" /\ cpc = "done"
    /\ macroResults' = [items |-> results, totals |-> totals]
    /\ npc' = "view"
    /\ items' = <<>> /\ cpc' = "off" /\ idx' = 1 /\ ordk' = 1
    /\ results' = <<>> /\ skillsFired' = {} /\ totals' = ZeroMacros
    /\ UNCHANGED <<cache, macroResult, calls, opc, nmsg, nshow, nreply, parsedItems, nres>>
    /\ UNCHANGED <<mealVars, routeVars, handleVars, llmVars, prefsVars>>

\* Steps 3 to 6: TEF and TDEE over macroResults.totals, the warnings, the view
\* and the return.
ViewStep ==
    /\ npc = "view"
    /\ \/ \E tefKcal \in TefValues : nres' = RoleData(macroResults, tefKcal, nshow)
       \/ UNCHANGED nres
    /\ npc' = "done"
    /\ UNCHANGED <<nmsg, nshow, nreply, parsedItems, macroResults>>
    /\ UNCHANGED <<cascadeVars, mealVars, routeVars, handleVars, llmVars, prefsVars>>

(***************************************************************************)
(* The completion call: callLLM and callOpenAI                             *)
(***************************************************************************)
MaxHistory == 3

\* The three model selections handleUserMessage builds (temperature in tenths).
ModelSelection(provider, model, temperature) == [provider |-> provider, model |-> model, temperature |-> temperature]
ModelSelections ==
    { ModelSelection("openai", "gpt-4o-mini", 1),
      ModelSelection("gemini", "gemini-2.5-flash", 2),
      ModelSelection("openai", "gpt-4o-mini", 3) }
\* modelSelection.temperature ?? 0.3: each of the three selections carries a
\* temperature, so the default never applies.
Temperature(sel) == sel.temperature

\* A message is the sequence of the pieces concatenated into it.
Disclosure == "Web search failed, answering from model knowledge.\n\n"
Apology == "I apologize, but I'm having trouble responding right now."
NoContent == "No response content"

\* Replies of the gemini-chat function: the call rejects, or resolves to
\* { data, error } with data null or { ok, text, cite }.
WebReply(kind, ok, text, cite) == [kind |-> kind, ok |-> ok, text |-> text, cite |-> cite]
WebReplies ==
    { WebReply(k, FALSE, "", "") : k \in {"throw", "error", "null"} }
        \cup { WebReply("data", FALSE, "quota", "") }
        \cup { WebReply("data", TRUE, t, c) : t \in {"", "answer"}, c \in {"", "https://example.org"} }
\* Replies of the openai-chat function; message "" stands for a missing message.
ChatReply(kind, message) == [kind |-> kind, message |-> message]
ChatReplies ==
    { ChatReply(k, "") : k \in {"throw", "error", "null"} }
        \cup { ChatReply("data", m) : m \in {"", "reply"} }

\* callOpenAI: null ("" here) on an error, a missing message or a rejection.
callOpenAI(reply) == IF reply.kind = "data" THEN reply.message ELSE ""

\* The value callLLM ends with: a returned message, or an exception.
LlmReturned(message, raw) == [state |-> "returned", message |-> message, raw |-> raw]
LlmThrew(msg) == [state |-> "threw", message |-> <<msg>>, raw |-> "none"]
LlmPending == [state |-> "pending", message |-> <<>>, raw |-> "none"]

\* fallbackMessage + (openaiResponse?.message || "I apologize, ...")
FallbackAnswer(reply, raw) ==
    LlmReturned(<<Disclosure, IF callOpenAI(reply) = "" THEN Apology ELSE callOpenAI(reply)>>, raw)
\* text || "No response content", plus the source line when cite is set.
WebAnswer(reply) ==
    LlmReturned(<<IF reply.text = "" THEN NoContent ELSE reply.text>>
                    \o (IF reply.cite = "" THEN <<>> ELSE <<"\n\nSource: ", reply.cite>>), "gemini")

\* History entry: an invocation of an edge function (the body of gemini-chat
\* is the prompt alone: no messages, no temperature).
LlmCall(fn, by, out, nMessages, temperature) ==
    [fn |-> fn, by |-> by, out |-> out, nMessages |-> nMessages, temperature |-> temperature]
WebOut(reply) == IF reply.kind = "data" /\ reply.ok THEN "ok" ELSE IF reply.kind = "data" THEN "notok" ELSE reply.kind
ChatOut(reply) == IF reply.kind = "data" /\ reply.message # "" THEN "ok" ELSE IF reply.kind = "data" THEN "nomessage" ELSE reply.kind

\* if (modelSelection.provider === 'gemini'): the invocation of gemini-chat
\* (outside any try block), the tests of error and of data?.ok, and the return
\* on success.
LlmWebStep ==
    /\ llmPc = "start" /\ modelSelection.provider = "gemini"
    /\ \E reply \in WebReplies :
         /\ llmCalls' = Append(llmCalls, LlmCall("gemini-chat", "callLLM", WebOut(reply), 0, 0))
         /\ CASE reply.kind = "throw" ->
                   /\ llmResult' = LlmThrew("gemini-chat rejected") /\ llmPc' = "done" /\ UNCHANGED fallbackCause
              [] reply.kind = "error" ->
                   /\ fallbackCause' = "original_error" /\ llmPc' = "fallback" /\ UNCHANGED llmResult
              [] reply.kind = "null" \/ (reply.kind = "data" /\ ~reply.ok) ->
                   /\ fallbackCause' = "gemini_error" /\ llmPc' = "fallback" /\ UNCHANGED llmResult
              [] OTHER ->
                   /\ llmResult' = WebAnswer(reply) /\ llmPc' = "done" /\ UNCHANGED fallbackCause
    /\ UNCHANGED <<modelSelection, messageHistory>>
    /\ UNCHANGED <<cascadeVars, mealVars, routeVars, handleVars, nutritionVars, prefsVars>>

\* const openaiResponse = await callOpenAI(messages, userId, temperature); return {...}
LlmFallbackStep ==
    /\ llmPc = "fallback"
    /\ \E reply \in ChatReplies :
         /\ llmCalls' = Append(llmCalls, LlmCall("openai-chat", "callOpenAI", ChatOut(reply),
                                                 messageHistory + 2, Temperature(modelSelection)))
         /\ llmResult' = FallbackAnswer(reply, fallbackCause)
    /\ llmPc' = "done"
    /\ UNCHANGED <<modelSelection, messageHistory, fallbackCause>>
    /\ UNCHANGED <<cascadeVars, mealVars, routeVars, handleVars, nutritionVars, prefsVars>>

\* The OpenAI path: the invocation of openai-chat, the two throws and the return.
LlmChatStep ==
    /\ llmPc = "start" /\ modelSelection.provider # "gemini"
    /\ \E reply \in ChatReplies :
         /\ llmCalls' = Append(llmCalls, LlmCall("openai-chat", "callLLM", ChatOut(reply),
                                                 messageHistory + 2, Temperature(modelSelection)))
         /\ llmResult' = CASE reply.kind = "throw" -> LlmThrew("openai-chat rejected")
                           [] reply.kind = "error" -> LlmThrew("Failed to get response from AI assistant")
                           [] reply.kind = "null" \/ reply.message = "" -> LlmThrew("No response from AI assistant")
                           [] OTHER -> LlmReturned(<<reply.message>>, "data")
    /\ llmPc' = "done"
    /\ UNCHANGED <<modelSelection, messageHistory, fallbackCause>>
    /\ UNCHANGED <<cascadeVars, mealVars, routeVars, handleVars, nutritionVars, prefsVars>>

LlmIdle ==
    /\ llmPc = "off" /\ modelSelection = ModelSelection("", "", 0) /\ messageHistory = 0
    /\ llmCalls = <<>> /\ fallbackCause = "" /\ llmResult = LlmPending

(***************************************************************************)
(* Preference ranking: rankTopPreferences                                  *)
(***************************************************************************)
MaxPrefs == 2
\* The k handleUserMessage passes.
TopK == 3

\* Outcome of the user_preferences query: it rejects, resolves with an error,
\* or resolves with rows (none included).
PrefTexts == <<"no dairy", "low carb", "halal", "no nuts">>
PrefStore(kind, rows) == [kind |-> kind, rows |-> rows]
PrefStores ==
    { PrefStore(k, <<>>) : k \in {"throw", "error"} }
        \cup { PrefStore("rows", SubSeq(PrefTexts, 1, n)) : n \in 0..MaxPrefs }

\* Replies to the embedding of the preference texts: a failure, or a list of
\* vectors (of any length).
PrefEmbedReplies ==
    { EmbedReply(k, <<>>) : k \in {"throw", "error", "notok", "novecs"} }
        \cup { EmbedReply("vecs", vs) : vs \in SeqsUpTo(PrefVectors, MaxPrefs) }

RankedPref(text, score) == [id |-> "", preference_text |-> text, score |-> score]

\* data.map((p, i) => ({..., score: cosine(qVec, prefVecs[i])})) over rows[i..].
RECURSIVE ScorePrefs(_, _, _, _)
ScorePrefs(rows, q, prefVecs, i) ==
    IF i > Len(rows) THEN <<>>
    ELSE <<RankedPref(rows[i], cosine(q, prefVecs[i]))>> \o ScorePrefs(rows, q, prefVecs, i + 1)

\* ranked.sort((a, b) => b.score - a.score): a stable sort, greatest first.
\* InsertRanked places x before the first element it is greater than.
RECURSIVE InsertRanked(_, _)
InsertRanked(x, s) ==
    IF s = <<>> THEN <<x>>
    ELSE IF FGt(x.score, Head(s).score) THEN <<x>> \o s
    ELSE <<Head(s)>> \o InsertRanked(x, Tail(s))
RECURSIVE SortRanked(_, _)
SortRanked(s, n) == IF n = 0 THEN <<>> ELSE InsertRanked(s[n], SortRanked(s, n - 1))
\* Variant that leaves the preferences in the order of the query.
SortByScore_Unsorted(s) == s
SortByScore(s) == SortRanked(s, Len(s))

\* ranked.slice(0, k)
TakeK(s, k) == SubSeq(s, 1, IF k < Len(s) THEN k ELSE Len(s))

\* Lines 57-67: score, keep the finite scores, sort, slice.
RankPrefs(rows, q, prefVecs, k) ==
    TakeK(SortByScore(SelectSeq(ScorePrefs(rows, q, prefVecs, 1), LAMBDA r : ~r.score.nan)), k)

\* The value the call ends with.
PrefsReturned(v) == [returned |-> TRUE, threw |-> FALSE, value |-> v]
PrefsThrew == [returned |-> FALSE, threw |-> TRUE, value |-> <<>>]
\* } catch (err) { console.error(...); return []; }
OuterCatch(r) == IF r.threw THEN PrefsReturned(<<>>) ELSE r

\* The query on user_preferences (a rejection is caught by the outer catch) and
\* the tests of error and of !data?.length.
PrefsQueryStep ==
    /\ ppc = "query"
    /\ IF pstore.kind = "throw"
       THEN ranked' = OuterCatch(PrefsThrew) /\ ppc' = "done"
       ELSE IF pstore.kind = "error" \/ pstore.rows = <<>>
       THEN ranked' = PrefsReturned(<<>>) /\ ppc' = "done"
       ELSE ppc' = "embedQuery" /\ UNCHANGED ranked
    /\ UNCHANGED <<pstore, pk, qReply, pReply, qVec>>
    /\ UNCHANGED <<cascadeVars, mealVars, routeVars, handleVars, nutritionVars, llmVars>>

\* qVec = (await getEmbeddings([query]))[0] || [] in its try block, and the
\* test of !qVec.length.
PrefsEmbedQueryStep ==
    /\ ppc = "embedQuery"
    /\ \E reply \in EmbedReplies :
         /\ qReply' = reply
         /\ qVec' = embed(reply)
         /\ IF embed(reply) = <<>>
            THEN ranked' = PrefsReturned(<<>>) /\ ppc' = "done"
            ELSE ppc' = "embedPrefs" /\ UNCHANGED ranked
    /\ UNCHANGED <<pstore, pk, pReply>>
    /\ UNCHANGED <<cascadeVars, mealVars, routeVars, handleVars, nutritionVars, llmVars>>

\* prefVecs = await getEmbeddings(prefTexts) in its try block, the test of the
\* lengths, and the ranking.
PrefsRankStep ==
    /\ ppc = "embedPrefs"
    /\ \E reply \in PrefEmbedReplies :
         LET g == getEmbeddings(reply) IN
         /\ pReply' = reply
         /\ ranked' = PrefsReturned(IF g.threw \/ g.vecs = <<>> \/ Len(g.vecs) # Len(pstore.rows) THEN <<>>
                                     ELSE RankPrefs(pstore.rows, qVec, g.vecs, pk))
    /\ ppc' = "done"
    /\ UNCHANGED <<pstore, pk, qReply, qVec>>
    /\ UNCHANGED <<cascadeVars, mealVars, routeVars, handleVars, nutritionVars, llmVars>>

NoRanked == [returned |-> FALSE, threw |-> FALSE, value |-> <<>>]
PrefsIdle ==
    /\ ppc = "off" /\ pstore = PrefStore("rows", <<>>) /\ pk = 0
    /\ qReply = NoEmbedReply /\ pReply = NoEmbedReply /\ qVec = <<>> /\ ranked = NoRanked

(***************************************************************************)
(* Specifications                                                          *)
(***************************************************************************)
MealIdle ==
    /\ lpc = "off" /\ nItems = 0 /\ logId = 0 /\ errMsg = "" /\ logs = {} /\ logItems = {}
    /\ atomicWrote = FALSE /\ ops = <<>> /\ lret = [state |-> "PENDING", ok |-> FALSE, log_id |-> 0, error |-> ""]

RoutesIdle ==
    /\ cached = NullCache /\ rpc = <<>> /\ rret = <<>>
    /\ fetches = 0 /\ writes = 0 /\ decision = <<>>

HandleIdle ==
    /\ hpc = "off" /\ hmsg = <<>> /\ embedCalls = 0
    /\ routeDecision = NoRouteDecision /\ hscan = NoScan /\ hcall = NoCall

NutritionIdle ==
    /\ npc = "off" /\ nmsg = <<>> /\ nshow = FALSE /\ nreply = NoNormReply
    /\ parsedItems = <<>> /\ macroResults = NoMacroResults /\ nres = NoResult

\* One call of lookupMacrosInCascade.
InitCascade == CascadeInit /\ MealIdle /\ RoutesIdle /\ HandleIdle /\ NutritionIdle /\ LlmIdle /\ PrefsIdle
SpecCascade == InitCascade /\ [][CascadeNext]_vars

\* One call of logMeal, over a store that may hold an earlier meal (header 1
\* with one item row).
InitMeal ==
    /\ CascadeIdle /\ RoutesIdle /\ HandleIdle /\ NutritionIdle /\ LlmIdle /\ PrefsIdle
    /\ lpc = "rpc" /\ nItems \in 1..MaxMealItems /\ logId = 0 /\ errMsg = ""
    /\ logs \in {{}, {1}} /\ logItems = ItemRows(1, Cardinality(logs))
    /\ atomicWrote = FALSE /\ ops = <<>> /\ lret = Pending
MealNext ==
    RpcStep \/ HeaderInsertStep \/ ItemsInsertStep \/ DailyTotalsStep \/ DeleteItemsStep \/ DeleteHeaderStep
SpecMeal == InitMeal /\ [][MealNext]_vars

\* MaxCallers requests entering handleUserMessage in one process.
InitRoutes ==
    /\ CascadeIdle /\ MealIdle /\ HandleIdle /\ NutritionIdle /\ LlmIdle /\ PrefsIdle
    /\ cached = NullCache
    /\ rpc = [c \in Callers |-> "start"]
    /\ rret = [c \in Callers |-> [kind |-> "none", value |-> NullCache]]
    /\ fetches = 0 /\ writes = 0
    /\ decision = [c \in Callers |-> [routes |-> <<>>, d |-> NoDecision]]
RoutesNext == \E c \in Callers : LoadEnter(c) \/ LoadComplete(c) \/ RouteStep(c)
SpecRoutes == InitRoutes /\ [][RoutesNext]_vars

\* One call of handleUserMessage, in a process whose route cache is not yet
\* loaded or was loaded by an earlier call, while another request (caller 1)
\* of the same process goes through loadRoutesOnce; each request may be the
\* first to load the cache, and the later assignment replaces the earlier.
InitHandle ==
    /\ CascadeIdle /\ MealIdle /\ NutritionIdle /\ LlmIdle /\ PrefsIdle
    /\ cached \in {NullCache, Cached(<<>>)} \cup { Cached(rs) : rs \in RouteLists }
    /\ rpc = <<"start">> /\ rret = <<[kind |-> "none", value |-> NullCache]>>
    /\ fetches = 0 /\ writes = 0 /\ decision = <<[routes |-> <<>>, d |-> NoDecision]>>
    /\ hpc = "load" /\ hmsg \in Messages /\ embedCalls = 0
    /\ routeDecision = NoRouteDecision /\ hscan = NoScan /\ hcall = NoCall
\* The call up to its return or its entry into processNutrition.
HandleNext ==
    \/ HandleLoadEnter \/ HandleLoadComplete \/ HandlePrefs \/ HandleRoute \/ HandleBranch
    \/ LoadEnter(1) \/ LoadComplete(1)
SpecHandle == InitHandle /\ [][HandleNext]_vars

\* One call of processNutrition, from the state in which handleUserMessage
\* makes it to the return of handleUserMessage, beside a second lookup made by
\* another request.  The call is made by a request that took the fast path,
\* one whose embedding failed, or one that matched the TMWYA route, in a
\* process that has the unit routes loaded.
EntryReplies == {NoEmbedReply, EmbedReply("error", <<>>), EmbedReply("vecs", << <<1, 0, 0>> >>)}
EntryScan(msg, reply) ==
    IF FastPath(msg)
    THEN [fast |-> TRUE, reply |-> NoEmbedReply, q |-> <<>>, routes |-> <<>>, scored |-> {}, best |-> SeedBest]
    ELSE [fast |-> FALSE, reply |-> reply, q |-> embed(reply), routes |-> UnitRoutes,
          scored |-> ScoredRoutes(embed(reply), UnitRoutes), best |-> Scan(embed(reply), UnitRoutes, 1, SeedBest)]
EntryDecision(msg, reply) ==
    IF FastPath(msg) THEN WithIntent(Decision("AMA", "low", Zero, DefaultHi, DefaultMid), "ama")
    ELSE LET d == decideRoute(embed(reply), UnitRoutes) IN
         WithIntent(d, IF d.route = "TMWYA" THEN "meal_logging" ELSE "ama")
InitNutrition ==
    /\ MealIdle /\ LlmIdle /\ PrefsIdle
    /\ items = <<>> /\ cache = <<>> /\ cpc = "off" /\ idx = 1 /\ ordk = 1
    /\ macroResult = NullResult /\ results = <<>> /\ skillsFired = {}
    /\ totals = ZeroMacros /\ calls = <<>> /\ opc = "select"
    /\ cached = Cached(UnitRoutes) /\ rpc = <<>> /\ rret = <<>>
    /\ fetches = 0 /\ writes = 0 /\ decision = <<>>
    /\ hmsg \in NutritionMessages
    /\ \E reply \in EntryReplies :
         /\ FastPath(hmsg) <=> reply = NoEmbedReply
         /\ hscan = EntryScan(hmsg, reply)
         /\ routeDecision = EntryDecision(hmsg, reply)
    /\ embedCalls = (IF FastPath(hmsg) THEN 0 ELSE 1)
    /\ BranchOf(routeDecision, hmsg) # "chat"
    /\ hpc = "nutrition"
    /\ hcall = [branch |-> BranchOf(routeDecision, hmsg), showLogButton |-> ShowLogOf(routeDecision, hmsg), modelUsed |-> ""]
    /\ npc = "normalize" /\ nmsg = hmsg /\ nshow = hcall.showLogButton /\ nreply = NoNormReply
    /\ parsedItems = <<>> /\ macroResults = NoMacroResults /\ nres = NoResult
NutritionNext ==
    \/ NormalizeStep \/ LookupStart
    \/ CacheLookupStep \/ ProviderStep \/ LastResortStep \/ ReturnStep
    \/ LookupReturn \/ ViewStep \/ HandleReturn
    \/ OtherSelect \/ OtherResolve
SpecNutrition == InitNutrition /\ [][NutritionNext]_vars

\* One call of callLLM with one of the model selections of handleUserMessage.
InitLLM ==
    /\ CascadeIdle /\ MealIdle /\ RoutesIdle /\ HandleIdle /\ NutritionIdle /\ PrefsIdle
    /\ llmPc = "start" /\ modelSelection \in ModelSelections /\ messageHistory \in 0..MaxHistory
    /\ llmCalls = <<>> /\ fallbackCause = "" /\ llmResult = LlmPending
LLMNext == LlmWebStep \/ LlmFallbackStep \/ LlmChatStep
SpecLLM == InitLLM /\ [][LLMNext]_vars

\* One call of rankTopPreferences.
InitPrefs ==
    /\ CascadeIdle /\ MealIdle /\ RoutesIdle /\ HandleIdle /\ NutritionIdle /\ LlmIdle
    /\ ppc = "query" /\ pstore \in PrefStores /\ pk \in 0..TopK
    /\ qReply = NoEmbedReply /\ pReply = NoEmbedReply /\ qVec = <<>> /\ ranked = NoRanked
PrefsNext == PrefsQueryStep \/ PrefsEmbedQueryStep \/ PrefsRankStep
SpecPrefs == InitPrefs /\ [][PrefsNext]_vars

(***************************************************************************)
(* Properties of the macro lookup cascade                                  *)
(***************************************************************************)
\* The item the history `calls` is about is complete: its row is the last of results.
ItemPushed == cpc = "cache" /\ idx > 1 /\ calls # <<>>
\* The item the history is about, and its row once pushed.
HistoryItem == IF cpc \in {"loop", "last"} THEN items[idx] ELSE items[idx - 1]
LastRow == results[idx - 1]
HasHistory == cpc \in {"loop", "last"} \/ ItemPushed
\* The provider invocations of the history (all but the cache lookup).
ProviderCalls == SubSeq(calls, 2, Len(calls))
LoopCalls == SelectSeq(ProviderCalls, LAMBDA c : c.phase = "loop")
CacheMissed == calls[1].out = "miss"
\* The order the specification gives for an item, with the kill-switch off.
ExpectedOrder(item) ==
    IF item.brand # NoBrand THEN <<"brand", "openai", "generic", "brand_resolver">>
    ELSE <<"generic", "openai", "brand_resolver">>

\* C1: for an item that misses the cache the providers are invoked in the
\* selected order (branded: brand, openai, generic, brand_resolver; otherwise
\* generic, openai, brand_resolver); a provider that returns calories > 0 is the
\* last one invoked for the item, and its values and key are the item's result.
C1_OrderAndShortCircuit ==
    HasHistory =>
        LET order == ExpectedOrder(HistoryItem) IN
        /\ Len(LoopCalls) <= Len(order)
        /\ \A i \in 1..Len(LoopCalls) : LoopCalls[i].key = order[i]
        /\ \A i \in 1..Len(ProviderCalls) :
             ProviderCalls[i].out = "found" =>
                /\ i = Len(ProviderCalls)
                /\ ItemPushed
                /\ LastRow.provider = ProviderCalls[i].key
                /\ LastRow.calories = macroResult.macros.kcal /\ LastRow.calories > 0
                /\ LastRow.protein_g = macroResult.macros.protein_g
                /\ LastRow.carbs_g = macroResult.macros.carbs_g
                /\ LastRow.fat_g = macroResult.macros.fat_g
                /\ LastRow.fiber_g = macroResult.macros.fiber_g
                /\ LastRow.source # "stub"
        /\ (cpc = "loop" => Len(LoopCalls) = ordk - 1)

\* A branded item resolved by the third provider of its order after the first
\* two yielded nothing.
C1_Witness ==
    /\ ItemPushed /\ HistoryItem.brand # NoBrand
    /\ Len(ProviderCalls) = 3
    /\ ProviderCalls[3].key = "generic" /\ ProviderCalls[3].out = "found"
    /\ LastRow.provider = "generic"

\* C2: after a global cache hit no provider is invoked for the item, whatever
\* the cached values are, and the row carries the cached values.
C2_CacheHitShortCircuits ==
    (HasHistory /\ ~CacheMissed) =>
        /\ ProviderCalls = <<>>
        /\ ItemPushed
        /\ LastRow.provider = "global_cache"
        /\ \E i \in 1..Len(cache) :
              /\ cache[i].normalized_name = NormName(HistoryItem.name)
              /\ cache[i].brand = HistoryItem.brand
              /\ cache[i].macros.kcal = LastRow.calories

\* A cache hit on a row of zero calories.
C2_Witness ==
    /\ ItemPushed /\ ~CacheMissed /\ LastRow.calories = 0 /\ LastRow.provider = "global_cache"

\* C3: when the cache misses and every provider call, the last-resort call
\* included, throws, returns nothing or returns zero calories, the item's row is
\* the stub (all five macro fields 0, confidence 0.1, source "stub") and the
\* pipeline's warnings for the row include missing_portion.
AllProvidersFailed ==
    /\ CacheMissed
    /\ \A i \in 1..Len(ProviderCalls) : ProviderCalls[i].out \in {"throw", "unresolved"}
C3_StubWhenAllFail ==
    (ItemPushed /\ AllProvidersFailed) =>
        /\ LastRow.calories = 0 /\ LastRow.protein_g = 0 /\ LastRow.carbs_g = 0
        /\ LastRow.fat_g = 0 /\ LastRow.fiber_g = 0
        /\ LastRow.confidence = 1
        /\ LastRow.source = "stub"
        /\ \E w \in 1..Len(WarningsOf(LastRow)) :
              WarningsOf(LastRow)[w] = [type |-> "missing_portion", item |-> HistoryItem.name]
        /\ \E w \in 1..Len(Warnings(results)) :
              Warnings(results)[w] = [type |-> "missing_portion", item |-> HistoryItem.name]

\* A branded item for which a provider threw and all others failed.
C3_Witness ==
    /\ ItemPushed /\ AllProvidersFailed /\ HistoryItem.brand # NoBrand
    /\ \E i \in 1..Len(ProviderCalls) : ProviderCalls[i].out = "throw"
    /\ ProviderCalls[Len(ProviderCalls)].phase = "last"
    /\ LastRow.source = "stub"

\* C4: a provider that throws is followed by the next provider of the order,
\* as one that returns nothing is; an item is complete only once a provider
\* found it or the whole order was tried; and the call returns one row per
\* input item, in input order.
C4_ThrowContinues ==
    /\ HasHistory =>
         LET order == ExpectedOrder(HistoryItem) IN
         /\ \A i \in 1..Len(ProviderCalls) :
              ProviderCalls[i].out \in {"throw", "unresolved"} =>
                 \/ i < Len(ProviderCalls) /\ i < Len(order) /\ ProviderCalls[i + 1].key = order[i + 1]
                 \/ i = Len(ProviderCalls) /\ i < Len(order) /\ cpc = "loop" /\ order[ordk] = order[i + 1]
                 \/ i = Len(order) /\ ProviderCalls[i].out = "unresolved"
                      /\ (cpc = "last" \/ (i < Len(ProviderCalls) /\ ProviderCalls[i + 1].phase = "last"))
                 \/ i = Len(order) + 1 /\ ProviderCalls[i].phase = "last" /\ ItemPushed
         /\ (ItemPushed /\ CacheMissed) =>
              \/ ProviderCalls[Len(ProviderCalls)].out = "found"
              \/ Len(LoopCalls) = Len(order)
    /\ Len(results) = idx - 1
    /\ \A i \in 1..Len(results) : results[i].name = items[i].name /\ results[i].brand = items[i].brand
    /\ cpc = "done" => Len(results) = Len(items)

\* The second of two items is resolved by a provider tried after one that threw.
C4_Witness ==
    /\ ItemPushed /\ idx = 3 /\ Len(results) = 2
    /\ Len(ProviderCalls) >= 2
    /\ ProviderCalls[1].out = "throw"
    /\ ProviderCalls[Len(ProviderCalls)].out = "found"

(***************************************************************************)
(* Properties of the meal commit                                           *)
(***************************************************************************)
Issued(name) == \E i \in 1..Len(ops) : ops[i].op = name
IssuedWith(name, outs) == \E i \in 1..Len(ops) : ops[i].op = name /\ ops[i].out \in outs
SequentialEntered == lpc \in {"head", "items", "totals", "delItems", "delHead"} \/ Len(ops) > 1

\* C5: if the item insert fails after the header insert succeeded, the call
\* ends in FAILED with the underlying error message and the header this call
\* inserted, and any item row under it, is no longer stored.
C5_RollbackLeavesNoOrphan ==
    (lpc = "done" /\ IssuedWith("insert_header", {"ok"}) /\ IssuedWith("insert_items", {"error", "throw"})) =>
        /\ lret = Failed(errMsg)
        /\ logId \notin logs
        /\ \A r \in logItems : r[1] # logId

\* C6, as amended: when log_meal_atomic returns a log id without error the call
\* returns COMMITTED with that id at once and issues no other persistence call;
\* the sequential path is entered exactly when the procedure call throws,
\* returns an error, or returns neither an error nor a log id.
C6_AtomicSuccessCommits ==
    /\ IssuedWith("rpc", {"ok"}) =>
         /\ lpc = "done" /\ Len(ops) = 1
         /\ lret.state = "COMMITTED" /\ lret.ok /\ lret.log_id # 0 /\ lret.log_id \in logs
         /\ logId = 0
    /\ SequentialEntered <=> IssuedWith("rpc", {"throw", "error", "no_id"})

\* The atomic procedure succeeded and the call is over.
C6_Witness ==
    /\ lpc = "done" /\ ops = <<Op("rpc", "ok")>> /\ lret.state = "COMMITTED" /\ Cardinality(logs) = 2

\* C6, as claimed: the sequential path is entered only when the atomic
\* procedure is unavailable (the call throws) or reports an error.
C6_SequentialOnlyOnError ==
    SequentialEntered => IssuedWith("rpc", {"throw", "error"})

\* C7: every call ends in COMMITTED or FAILED, never with an exception, whatever
\* persistence call fails, and a call that reached the daily-totals update ends
\* in COMMITTED.
C7_AlwaysCommittedOrFailed ==
    lpc = "done" =>
        /\ lret.state \in {"COMMITTED", "FAILED"}
        /\ lret.ok <=> lret.state = "COMMITTED"
        /\ Issued("upsert_daily_totals") => lret.state = "COMMITTED"

(***************************************************************************)
(* Properties of the route cache                                           *)
(***************************************************************************)
\* C8: once every caller has entered loadRoutesOnce, exactly one fetch of
\* intent_routes has been issued, however the calls interleave.
C8_SingleFetch ==
    (\A c \in Callers : rpc[c] # "start") => fetches = 1

\* C9: the process-wide cache is assigned at most once.
C9_WrittenAtMostOnce ==
    writes <= 1

\* C10: a load whose query returns an error or raises sets the cache to the
\* empty list and returns it (no exception, no null), getCachedRoutes is then
\* empty, and decideRoute over the empty list answers the default route AMA at
\* low confidence.
C10_FailedLoadDegradesToDefault ==
    [][\A c \in Callers :
         /\ (rpc[c] = "fetching" /\ rpc'[c] = "loaded" /\ rret'[c].kind \in {"throw", "error"}) =>
               /\ cached' = Cached(<<>>)
               /\ rret'[c].value = Cached(<<>>)
               /\ getCachedRoutes(cached') = <<>>
         /\ (rpc[c] = "loaded" /\ rpc'[c] = "routed" /\ getCachedRoutes(cached) = <<>>) =>
               /\ decision'[c].routes = <<>>
               /\ decision'[c].d.route = "AMA" /\ decision'[c].d.confidence = "low"]_vars

\* A caller whose load failed was routed over the empty list, with an embedding
\* that succeeded.
C10_Witness ==
    \E c \in Callers :
        /\ rret[c].kind \in {"throw", "error"} /\ rpc[c] = "routed"
        /\ cached = Cached(<<>>) /\ decision[c].routes = <<>>
        /\ decision[c].d.route = "AMA" /\ decision[c].d.sim = MinusOne

(***************************************************************************)
(* Properties of handleUserMessage and the semantic router                 *)
(***************************************************************************)
\* The call went through decideRoute (not the fast path) and has its decision.
Routed == hpc \in {"branch", "nutrition", "done"} /\ ~hscan.fast
\* decideRoute has just returned: routeDecision and hscan are as it left them,
\* and no later step of the call assigns them.
Decided == hpc = "branch" /\ ~hscan.fast
\* The provider's reply gave embed no usable vector.
EmbeddingFailed(reply) == reply.kind # "vecs" \/ reply.vecs = <<>> \/ reply.vecs[1] = <<>>
\* Similarity of the message to route i, and the thresholds in force for route i.
SimTo(i) == cosine(hscan.q, hscan.routes[i].embedding)
HiOf(i) == IF hscan.routes[i].hi_threshold = -1 THEN DefaultHi ELSE hscan.routes[i].hi_threshold
MidOf(i) == IF hscan.routes[i].mid_threshold = -1 THEN DefaultMid ELSE hscan.routes[i].mid_threshold
\* Route i is the best-scoring route: it beats the seed and no route beats it.
IsBest(i) ==
    /\ i \in hscan.scored /\ FGt(SimTo(i), MinusOne)
    /\ \A j \in hscan.scored : ~FGt(SimTo(j), SimTo(i))
\* No route scored above the seed of the scan.
NoneScored == \A j \in hscan.scored : ~FGt(SimTo(j), MinusOne)

\* C11: when the embedding succeeds, the decision carries the similarity and
\* the thresholds of the best-scoring route (0.85 / 0.60 where the route has
\* none, or when no route scores), and its confidence is high iff
\* sim >= hi, mid iff mid <= sim < hi, and low otherwise.
C11_ConfidenceByBestThresholds ==
    (Decided /\ ~EmbeddingFailed(hscan.reply)) =>
        LET d == routeDecision IN
        /\ \/ NoneScored /\ d.sim = MinusOne /\ d.hi = DefaultHi /\ d.mid = DefaultMid
           \/ \E i \in hscan.scored : IsBest(i) /\ d.sim = SimTo(i) /\ d.hi = HiOf(i) /\ d.mid = MidOf(i)
        /\ d.confidence = "high" <=> SimGeq(d.sim, d.hi)
        /\ d.confidence = "mid" <=> (SimGeq(d.sim, d.mid) /\ ~SimGeq(d.sim, d.hi))
        /\ d.confidence = "low" <=> (~SimGeq(d.sim, d.mid) /\ ~SimGeq(d.sim, d.hi))

\* A message scored mid against a route whose own hi threshold is 0.90, at a
\* similarity (0.894) that the default hi threshold would call high.
C11_Witness ==
    /\ Routed /\ ~EmbeddingFailed(hscan.reply)
    /\ routeDecision.confidence = "mid" /\ routeDecision.hi = 90 /\ routeDecision.mid = 60
    /\ SimGeq(routeDecision.sim, DefaultHi)
    /\ routeDecision.route = "TMWYA"

\* C12: at low confidence the route is AMA whichever route scored highest; at
\* mid or high confidence it is the name of the best-scoring route; and the
\* TMWYA pipeline branch is entered only on a mid or high match of the TMWYA
\* route.
C12_LowRoutesToDefault ==
    /\ Decided =>
         LET d == routeDecision IN
         /\ d.confidence = "low" => d.route = "AMA"
         /\ d.confidence \in {"mid", "high"} =>
              \E i \in hscan.scored : IsBest(i) /\ d.sim = SimTo(i) /\ d.route = hscan.routes[i].name
    /\ (hpc \in {"nutrition", "done"} /\ hcall.branch = "tmwya") =>
         /\ Routed /\ routeDecision.route = "TMWYA" /\ routeDecision.confidence \in {"mid", "high"}
         /\ \E i \in hscan.scored : IsBest(i) /\ hscan.routes[i].name = "TMWYA"
         /\ hcall.showLogButton

\* The TMWYA route scored highest, at low confidence: the message went to AMA
\* and not to the TMWYA branch.
C12_Witness ==
    /\ hpc = "done" /\ Routed
    /\ \E i \in hscan.scored : IsBest(i) /\ hscan.routes[i].name = "TMWYA"
    /\ routeDecision.confidence = "low" /\ routeDecision.route = "AMA"
    /\ hcall.branch # "tmwya"

\* C13: when the embedding call fails (it rejects, errors, reports a body that
\* is not ok or has no vectors) or yields no or an empty vector, embed returns
\* the empty vector and decideRoute answers AMA at low confidence without
\* computing a similarity against any route.
C13_EmbeddingFailureRoutesToDefault ==
    (Decided /\ EmbeddingFailed(hscan.reply)) =>
        /\ hscan.q = <<>>
        /\ routeDecision.route = "AMA" /\ routeDecision.confidence = "low"
        /\ hscan.scored = {}
        /\ routeDecision.sim = Zero

\* The provider reported a body that is not ok, with routes loaded.
C13_Witness ==
    /\ Routed /\ hscan.reply.kind = "notok" /\ Len(hscan.routes) > 0
    /\ routeDecision.route = "AMA" /\ routeDecision.confidence = "low"

\* The phrases the specification names.
QuestionPhrase(msg) ==
    HasPhrase(msg, <<"what", "are">>) \/ HasPhrase(msg, <<"how", "many">>) \/ HasPhrase(msg, <<"tell", "me">>)
EatingActionPhrase(msg) == HasWord(msg, {"ate", "had", "logged", "log"})

\* C18: on the AMA nutrition branch showLogButton is set only for a message
\* with an eating-action phrase and no question phrase ("what are", "how
\* many", "tell me").
C18_QuestionNeverLoggable ==
    (hpc \in {"nutrition", "done"} /\ hcall.branch = "ama_nutrition" /\ hcall.showLogButton) =>
        EatingActionPhrase(hmsg) /\ ~QuestionPhrase(hmsg)

\* C19: a message of fewer than 12 words with no trigger term is handled
\* without any call to the embedding provider and is routed to AMA at low
\* confidence.
C19_FastPathNeverEmbeds ==
    (hpc \in {"branch", "nutrition", "done"} /\ Len(hmsg) < FastPathWords /\ ~TRIGGER_WORDS(hmsg)) =>
        /\ embedCalls = 0
        /\ routeDecision.route = "AMA" /\ routeDecision.confidence = "low"

(***************************************************************************)
(* Properties of the global cache write-back and of the totals             *)
(***************************************************************************)
\* Items i and j have the same lower-cased, trimmed name and the same brand.
SameFood(i, j) == NormName(items[i].name) = NormName(items[j].name) /\ items[i].brand = items[j].brand

\* C15: once the brand resolver has resolved an item, a later lookup of an
\* item with the same normalized name and the same brand (no brand included)
\* is answered from the global cache.
C15_ResolvedThenCached ==
    \A i \in 1..Len(results) : \A j \in 1..Len(results) :
        (i < j /\ SameFood(i, j) /\ results[i].provider = "brand_resolver" /\ results[i].calories > 0) =>
            results[j].provider = "global_cache"

\* Sum of the field F of the rows rs[1..n].
RECURSIVE FieldSum(_, _, _)
FieldSum(F(_), rs, n) == IF n = 0 THEN 0 ELSE FieldSum(F, rs, n - 1) + F(rs[n])

\* C16: the totals the cascade returns are the element-wise sums of the five
\* numeric fields of its rows, unrounded.
C16_TotalsAreExactSums ==
    cpc = "done" =>
        /\ totals.kcal = FieldSum(LAMBDA r : r.calories, results, Len(results))
        /\ totals.protein_g = FieldSum(LAMBDA r : r.protein_g, results, Len(results))
        /\ totals.carbs_g = FieldSum(LAMBDA r : r.carbs_g, results, Len(results))
        /\ totals.fat_g = FieldSum(LAMBDA r : r.fat_g, results, Len(results))
        /\ totals.fiber_g = FieldSum(LAMBDA r : r.fiber_g, results, Len(results))

\* Two rows of 140.5 kcal each: the total is 281.0, where the rounded rows
\* would add up to 282.
C16_Witness ==
    /\ cpc = "done" /\ Len(results) = 2
    /\ results[1].calories = 1405 /\ results[2].calories = 1405 /\ totals.kcal = 2810

(***************************************************************************)
(* Properties of processNutrition                                          *)
(***************************************************************************)
\* The normalizer was called and did not reject: parsedItems is set.
NormalizerReturned ==
    npc \in {"lookup", "cascade", "view"} \/ (npc = "done" /\ nreply.kind \in {"error", "nomessage", "text"})
\* The normalizer's output is unusable: the call errored or carried no
\* message, the text is not JSON-shaped, or no {items:[...]} can be parsed
\* from it.
NormalizerUnusable(reply) ==
    \/ reply.kind \in {"error", "nomessage"}
    \/ reply.kind = "text" /\ (~reply.text.brace \/ reply.text.shape # "items")

\* C14: when the normalizer's output is unusable the items passed on to the
\* sanitizer are those of fallbackNLU applied to the message.
C14_FallbackOnUnusableOutput ==
    (NormalizerReturned /\ NormalizerUnusable(nreply)) => parsedItems = fallbackNLU(nmsg)

\* The call returned the view built from macroResults.
ViewBuilt == npc = "done" /\ nres.success /\ ~DevOverride(nmsg)

\* C17: the view holds the rounded values, while the totals returned beside
\* the view and the totals given to the TEF / TDEE calculators are the
\* unrounded sums.
C17_RoundingOnlyInView ==
    ViewBuilt =>
        /\ nres.view.totals = RoundMacros(macroResults.totals)
        /\ nres.view.rows = ViewRows(macroResults.items)
        /\ nres.calcInput = macroResults.totals
        /\ nres.totals = macroResults.totals

\* C20: every successful result offers CONFIRM_LOG, EDIT_ITEMS and CANCEL,
\* whatever showLogButton is, and the result for the other value of
\* showLogButton has the same rows, totals, warnings and actions.
C20_ActionsAlwaysCommitEditCancel ==
    (npc = "done" /\ nres.success) =>
        /\ nres.view.actions = <<"CONFIRM_LOG", "EDIT_ITEMS", "CANCEL">>
        /\ ~DevOverride(nmsg) =>
             \E tefKcal \in TefValues :
                /\ nres = RoleData(macroResults, tefKcal, nshow)
                /\ LET other == RoleData(macroResults, tefKcal, ~nshow) IN
                   /\ other.view.rows = nres.view.rows /\ other.view.totals = nres.view.totals
                   /\ other.view.warnings = nres.view.warnings /\ other.view.actions = nres.view.actions
                   /\ other.totals = nres.totals
        /\ parsedItems = (IF DevOverride(nmsg) THEN <<>> ELSE NormalizerItems(nreply, nmsg))

\* A view with rows and a warning, built for a call with showLogButton false.
C20_Witness ==
    /\ ViewBuilt /\ ~nshow /\ Len(nres.view.rows) = 2 /\ Len(nres.view.warnings) > 0
    /\ nres.view.actions[1] = "CONFIRM_LOG"

(***************************************************************************)
(* Further properties of the macro lookup cascade                          *)
(***************************************************************************)
\* The invocations of the AI brand resolver in the history of the item.
ResolverCalls == SelectSeq(ProviderCalls, LAMBDA c : c.key = "brand_resolver")
\* Every provider of the selected order was tried and none yielded calories > 0.
OrderExhausted ==
    /\ CacheMissed
    /\ Len(LoopCalls) = Len(ExpectedOrder(HistoryItem))
    /\ \A i \in 1..Len(LoopCalls) : LoopCalls[i].out # "found"

\* C23: for an item that misses the cache, when no provider of the selected
\* order yields calories > 0 the brand resolver is invoked once more after the
\* loop, twice in total for the item, before the item's row is emitted; and a
\* stub row is emitted only after that last-resort invocation.
C23_LastResortBeforeStub ==
    /\ (ItemPushed /\ OrderExhausted) =>
          /\ Len(ProviderCalls) = Len(LoopCalls) + 1
          /\ ProviderCalls[Len(ProviderCalls)].phase = "last"
          /\ ProviderCalls[Len(ProviderCalls)].key = "brand_resolver"
          /\ Len(ResolverCalls) = 2
    /\ (ItemPushed /\ LastRow.provider = "stub") =>
          /\ ProviderCalls # <<>>
          /\ ProviderCalls[Len(ProviderCalls)].phase = "last"
          /\ ProviderCalls[Len(ProviderCalls)].key = "brand_resolver"

\* The values of the source field the specification enumerates.
SourceEnum == {"global_cache", "brand", "generic", "gemini", "openai", "brand_resolver", "stub"}

\* C25: every row emitted by lookupMacrosInCascade has a source among
\* global_cache, brand, generic, gemini, openai, brand_resolver and stub.
C25_SourceInEnum ==
    \A i \in 1..Len(results) : results[i].source \in SourceEnum

\* C26: the global nutrition cache holds at most one row per
\* (normalized name, brand) key.
C26_OneRowPerKey ==
    \A i, j \in 1..Len(cache) :
        (cache[i].normalized_name = cache[j].normalized_name /\ cache[i].brand = cache[j].brand) => i = j

\* C28: no row with calories <= 0 is ever written to the global cache, and the
\* invocation after which the stub is emitted writes no row at all (a write by
\* the earlier in-loop invocation for the item falsifies the claim as well).
C28_NoUnresolvedCached ==
    [][ /\ \A i \in (Len(cache) + 1)..Len(cache') : cache'[i].macros.kcal > 0
        /\ (Len(results') > Len(results) /\ results'[Len(results')].provider = "stub") => cache' = cache
      ]_vars

\* C29: the provider field of a row names the step that supplied its values:
\* global_cache only after a cache hit, stub only for the stub, and otherwise
\* the key of the last provider invoked, whose returned values are the row's.
C29_ProviderNamesSupplier ==
    ItemPushed =>
        /\ LastRow.provider = "global_cache" => (~CacheMissed /\ ProviderCalls = <<>>)
        /\ LastRow.provider = "stub" =>
              (LastRow.source = "stub" /\ LastRow.calories = 0 /\ CacheMissed)
        /\ LastRow.provider \notin {"global_cache", "stub"} =>
              /\ ProviderCalls # <<>>
              /\ ProviderCalls[Len(ProviderCalls)].key = LastRow.provider
              /\ ProviderCalls[Len(ProviderCalls)].out \in {"found", "other"}
              /\ LastRow.calories = macroResult.macros.kcal

(***************************************************************************)
(* Further properties of the meal commit                                   *)
(***************************************************************************)
\* C27: one call of logMeal issues the sequential header insert only if the
\* atomic procedure did not persist the meal, so the call never leaves more
\* than one header for the meal.
C27_AtMostOneHeader ==
    atomicWrote => ~Issued("insert_header")

(***************************************************************************)
(* Further properties of processNutrition                                  *)
(***************************************************************************)
\* The sums of the five fields over the rows shown in the view.
ViewRowSums == SumTotals(nres.view.rows)
\* The sums of the five fields over the unrounded items of the cascade.
ItemSums == SumTotals(macroResults.items)
FieldsOf(m) == <<m.kcal, m.protein_g, m.carbs_g, m.fat_g, m.fiber_g>>

\* C30, as amended: in every view built by processNutrition each row field is
\* the rounded value of the item's field and each total is the rounded sum of
\* the unrounded item values; the sum of the rounded rows differs from the
\* total shown by less than half a unit per row plus a half.
C30_ViewTotalsAreRoundedSums ==
    ViewBuilt =>
        /\ nres.view.rows = ViewRows(macroResults.items)
        /\ nres.view.totals = RoundMacros(ItemSums)
        /\ \A f \in 1..5 :
              Abs(FieldsOf(ViewRowSums)[f] - FieldsOf(nres.view.totals)[f]) < 5 * (Len(nres.view.rows) + 1)

\* Two items of 140.5 kcal: the rows show 141 and 141, the total shows 281.
C30_Witness ==
    /\ ViewBuilt /\ Len(nres.view.rows) = 2
    /\ nres.view.rows[1].calories = 1410 /\ nres.view.rows[2].calories = 1410
    /\ nres.view.totals.kcal = 2810

\* C30, as claimed: each total of the view equals the sum of the field over
\* the view's rows.
C30_ViewTotalsAreRowSums ==
    (npc = "done" /\ nres.success) => nres.view.totals = ViewRowSums

(***************************************************************************)
(* Properties of callLLM                                                   *)
(***************************************************************************)
\* The call took the web-grounded channel and the web-grounded provider failed.
WebFailed ==
    /\ llmCalls # <<>> /\ llmCalls[1].fn = "gemini-chat"
    /\ llmCalls[1].out \in {"throw", "error", "null", "notok"}
CompletionCalls == SelectSeq(llmCalls, LAMBDA c : c.fn = "openai-chat")

\* C21: on the web-grounded channel every failure of the web-grounded provider
\* (an error, a rejected call, a response whose ok is not true) ends with one
\* call of the completion provider and a returned message that begins with the
\* disclosure that web search failed; the call does not throw, whatever the
\* completion provider does.
C21_WebFailureFallsBack ==
    (llmPc = "done" /\ WebFailed) =>
        /\ llmResult.state = "returned"
        /\ Len(CompletionCalls) = 1
        /\ llmResult.message # <<>> /\ llmResult.message[1] = Disclosure

(***************************************************************************)
(* Properties of rankTopPreferences                                        *)
(***************************************************************************)
\* The conditions under which the ranking is given up.
PrefsUnavailable ==
    \/ pstore.kind \in {"throw", "error"} \/ pstore.rows = <<>>
    \/ getEmbeddings(qReply).threw \/ embed(qReply) = <<>>
    \/ getEmbeddings(pReply).threw \/ Len(getEmbeddings(pReply).vecs) # Len(pstore.rows)
\* The index of the preference text t in the rows of the query.
RowOf(t) == CHOOSE i \in 1..Len(pstore.rows) : pstore.rows[i] = t

\* C22: rankTopPreferences never throws; it returns the empty list when the
\* user has no preferences, the query errors, the query embedding fails or is
\* empty, or the preference embeddings fail or differ in count from the
\* preferences; otherwise it returns at most k of the preferences, each with
\* its cosine score, in non-increasing order of score.
C22_RankedTopK ==
    ppc = "done" =>
        /\ ranked.returned /\ ~ranked.threw
        /\ PrefsUnavailable => ranked.value = <<>>
        /\ ~PrefsUnavailable =>
              /\ Len(ranked.value) <= pk
              /\ \A i \in 1..Len(ranked.value) :
                    /\ \E r \in 1..Len(pstore.rows) : ranked.value[i].preference_text = pstore.rows[r]
                    /\ ranked.value[i].score =
                          cosine(qVec, getEmbeddings(pReply).vecs[RowOf(ranked.value[i].preference_text)])
                    /\ ~ranked.value[i].score.nan
              /\ \A i, j \in 1..Len(ranked.value) :
                    i < j => ~FGt(ranked.value[j].score, ranked.value[i].score)
              /\ \A i, j \in 1..Len(ranked.value) :
                    i # j => ranked.value[i].preference_text # ranked.value[j].preference_text

\* Two preferences of which the second scores higher: the result lists it
\* first; and a call with k = 1 over two scored preferences returns one.
C22_Witness ==
    /\ ppc = "done" /\ ~PrefsUnavailable /\ Len(pstore.rows) = 2 /\ pk = 1
    /\ Len(ranked.value) = 1
    /\ ranked.value[1].preference_text = pstore.rows[2]
    /\ FGt(ranked.value[1].score, cosine(qVec, getEmbeddings(pReply).vecs[1]))

(***************************************************************************)
(* Further properties of decideRoute                                       *)
(***************************************************************************)
\* decideRoute ran its loop: the embedding of the message is not empty.
Scanned == Decided /\ hscan.q # <<>>
\* The routes of greatest similarity among those scored above the seed.
Winners == { i \in hscan.scored : IsBest(i) }
FirstWinner == LET w == Winners IN CHOOSE i \in w : \A j \in w : i <= j
\* The similarity is defined and at least 0.
NonNegative(s) == ~s.nan /\ s.sign >= 0

\* C24: the best match of decideRoute is the first route, among those with a
\* non-empty embedding, of strictly greatest similarity; the seed (AMA at -1)
\* stays only when no route scores above it, and every route of similarity
\* >= 0 displaces it; a route of undefined similarity is never the best match;
\* for the routes [1,0,0], [0,1,0], [0,0,1] and the query [1,0,0] the best
\* match is the first route, at similarity 1.
C24_BestIsFirstGreatest ==
    Scanned =>
        LET best == hscan.best
            winners == Winners
            first == FirstWinner IN
        /\ routeDecision.sim = best.sim
        /\ IF winners = {} THEN best = SeedBest
           ELSE /\ best.name = hscan.routes[first].name
                /\ best.sim = SimTo(first)
                /\ best.hi = HiOf(first) /\ best.mid = MidOf(first)
        /\ \A i \in hscan.scored :
              /\ NonNegative(SimTo(i)) => (best # SeedBest /\ ~FGt(SimTo(i), best.sim))
              /\ SimTo(i).nan => (i \notin winners /\ ~best.sim.nan)
        /\ (hscan.q = <<1, 0, 0>> /\ hscan.routes = UnitRoutes) =>
              (best.name = UnitRoutes[1].name /\ best.sim = One)

\* Two routes tie for the greatest similarity and the first of them is the
\* best match, in a list that also holds a route without embedding.
C24_Witness ==
    /\ Scanned
    /\ \E i, j \in Winners : i < j /\ hscan.routes[i].name # hscan.routes[j].name
    /\ hscan.best.name = hscan.routes[FirstWinner].name
    /\ Cardinality(hscan.scored) < Len(hscan.routes)

====
